---- MODULE Spec2Model ----
(***************************************************************************)
(* Model of the Mexico news ETL pipeline (isaac-evs/safeway_etl).          *)
(*                                                                         *)
(* Texts are sequences of one-character strings, so that strip(), lower(), *)
(* replace() and substring tests are computed as Python computes them.     *)
(* The characters e-acute and E-acute are written "e_acute" and "E_acute". *)
(***************************************************************************)
EXTENDS Integers, Sequences, FiniteSets, TLC

VARIABLES
    queue,            \* asyncio.Queue: the articles (by index in art) waiting
    unfinished,       \* asyncio.Queue._unfinished_tasks
    finished,         \* asyncio.Queue._finished is set
    art,              \* the article dicts, in the order they were enqueued; the
                      \* dict of a discarded article is dropped, the one passed
                      \* to insert_article is kept as it was passed
    pc,               \* per worker task: where process_articles is suspended
    cur,              \* per worker task: the article it holds (0: none)
    attempt,          \* per worker task: geocode_location's loop variable
    cancelRequested,  \* per worker task: task.cancel() was called on it
    store,            \* the rows of the news table
    mainpc,           \* where lambda_main / main is suspended
    prodpc,           \* where poll_feeds_continuously is suspended
    stages,           \* history: per article, the stages invoked for it
    outcome,          \* history: per article, how its processing ended
    call,             \* a single call of one stage function, with its trace
    processed_urls,   \* FeedFetcher.processed_urls
    session,          \* the aiohttp sessions of the feed fetcher and the geocoder
    feedCancelled,    \* feed_task.cancel() was called and not yet delivered
    shutpc,           \* per signal: where its shutdown task is suspended
    timedOut,         \* history: a wait_for(feed_task, timeout=5) timed out
    cycles,           \* history: the fetch_all_feeds calls that returned
    exitStatus,       \* how asyncio.run ended the process
    db                \* the Database object: its fields, the connections it
                      \* made and the calls on them (followed where the store
                      \* operations are looked at on their own)

lifeVars == <<processed_urls, session, feedCancelled, shutpc, timedOut,
              cycles, exitStatus, db>>
pipelineVars == <<queue, unfinished, finished, art, pc, cur, attempt,
                  cancelRequested, store, mainpc, prodpc, stages, outcome,
                  lifeVars>>
vars == <<queue, unfinished, finished, art, pc, cur, attempt,
          cancelRequested, store, mainpc, prodpc, stages, outcome, call,
          lifeVars>>

(***************************************************************************)
(* Bounds of the model.                                                    *)
(***************************************************************************)
\* longest run of decoration characters put before and after a response text
MaxPad == 2
\* most articles one fetch returns in one-shot mode
MaxBatch == 2
\* most signals that arrive, each starting a shutdown task
MaxSignals == 2
\* most insert_article calls in a run of the store alone
MaxInserts == 3
\* most entries the feeds hold together in one fetch cycle
MaxEntries == 2
\* most fetch cycles in a run of the feed fetcher alone
MaxCycles == 2
\* most articles the producer enqueues in a run that receives signals
MaxSignalledArticles == 1
\* most store operations of a run
MaxOperations == 4
\* most articles the producer enqueues over a run in continuous mode
MaxPolled == 4

(***************************************************************************)
(* Program constants.                                                      *)
(***************************************************************************)
\* config.py: MAX_RETRIES = int(os.getenv('MAX_RETRIES', 3))
MAX_RETRIES == 3
\* main.py: num_workers = 3 (in lambda_main and in main)
num_workers == 3

(***************************************************************************)
(* Text constants.                                                         *)
(***************************************************************************)
T_crime == <<"c", "r", "i", "m", "e">>
T_infrastructure == <<"i", "n", "f", "r", "a", "s", "t", "r", "u", "c", "t", "u", "r", "e">>
T_hazard == <<"h", "a", "z", "a", "r", "d">>
T_social == <<"s", "o", "c", "i", "a", "l">>
T_Mexico == <<"M", "e", "x", "i", "c", "o">>
T_comma_Mexico == <<",", " ", "M", "e", "x", "i", "c", "o">>
T_mexico == <<"m", "e", "x", "i", "c", "o">>
T_mexico_acute == <<"m", "e_acute", "x", "i", "c", "o">>
T_Mexico_cap_acute == <<"M", "e_acute", "x", "i", "c", "o">>
T_no_location == <<"n", "o", "_", "l", "o", "c", "a", "t", "i", "o", "n">>
T_Crime == <<"C", "r", "i", "m", "e">>
T_HAZARD == <<"H", "A", "Z", "A", "R", "D">>
T_DISCARD == <<"D", "I", "S", "C", "A", "R", "D">>
T_Discard == <<"D", "i", "s", "c", "a", "r", "d">>
T_crime_inner_quote == <<"c", "r", "\"", "i", "m", "e">>
T_crime_inner_dot == <<"c", "r", ".", "i", "m", "e">>
T_crime_single_quoted == <<"'", "c", "r", "i", "m", "e", "'">>
T_crime_newline == <<"c", "r", "i", "m", "e", "\n">>
T_crimes == <<"c", "r", "i", "m", "e", "s">>
T_quoted_padded_social == <<"\"", " ", "s", "o", "c", "i", "a", "l", " ", "\"">>
T_NO_LOCATION == <<"N", "O", "_", "L", "O", "C", "A", "T", "I", "O", "N">>
T_No_Location == <<"N", "o", "_", "L", "o", "c", "a", "t", "i", "o", "n">>
T_Monterrey == <<"M", "o", "n", "t", "e", "r", "r", "e", "y">>
T_Monterrey_Mexico == <<"M", "o", "n", "t", "e", "r", "r", "e", "y", ",", " ", "M", "e", "x", "i", "c", "o">>
T_cdmx_lower == <<"c", "d", "m", "x", ",", " ", "m", "e", "x", "i", "c", "o">>
T_MEXICO_upper == <<"C", "D", "M", "X", ",", " ", "M", "E", "X", "I", "C", "O">>
T_Ciudad_de_Mexico_acute == <<"C", "i", "u", "d", "a", "d", " ", "d", "e", " ", "M", "e_acute", "x", "i", "c", "o">>
T_MEXICO_acute_upper == <<"M", "E_acute", "X", "I", "C", "O">>
T_Mexic == <<"M", "e", "x", "i", "c">>

\* config.py: VALID_CATEGORIES
VALID_CATEGORIES == {T_crime, T_infrastructure, T_hazard, T_social}

(***************************************************************************)
(* Python string operations on sequences of characters.                    *)
(***************************************************************************)
\* the characters str.strip() removes (the ones the model's texts use)
Whitespace == {" ", "\n"}

UpperChars == <<"A", "B", "C", "D", "E", "F", "G", "H", "I", "J", "K", "L", "M",
                "N", "O", "P", "Q", "R", "S", "T", "U", "V", "W", "X", "Y", "Z",
                "E_acute">>
LowerChars == <<"a", "b", "c", "d", "e", "f", "g", "h", "i", "j", "k", "l", "m",
                "n", "o", "p", "q", "r", "s", "t", "u", "v", "w", "x", "y", "z",
                "e_acute">>

lower_char(c) ==
    IF \E i \in 1..Len(UpperChars) : UpperChars[i] = c
    THEN LowerChars[CHOOSE i \in 1..Len(UpperChars) : UpperChars[i] = c]
    ELSE c

\* str.lower()
lower(s) == [i \in 1..Len(s) |-> lower_char(s[i])]

RECURSIVE lstrip_chars(_, _)
lstrip_chars(s, chars) ==
    IF s # <<>> /\ Head(s) \in chars THEN lstrip_chars(Tail(s), chars) ELSE s

RECURSIVE rstrip_chars(_, _)
rstrip_chars(s, chars) ==
    IF s # <<>> /\ s[Len(s)] \in chars
    THEN rstrip_chars(SubSeq(s, 1, Len(s) - 1), chars)
    ELSE s

\* str.strip(chars)
strip_chars(s, chars) == rstrip_chars(lstrip_chars(s, chars), chars)

\* str.strip()
strip(s) == strip_chars(s, Whitespace)

\* str.replace(c, '') for a one-character c
replace_with_empty(s, c) == SelectSeq(s, LAMBDA x : x # c)

\* sub in s
contains(s, sub) ==
    \E i \in 0..(Len(s) - Len(sub)) : SubSeq(s, i + 1, i + Len(sub)) = sub

(***************************************************************************)
(* Articles.                                                               *)
(***************************************************************************)
\* a key the article dict does not hold yet
None == <<"None">>
NoCoordinates == <<>>

T_title == <<"t">>
T_description == <<"d">>
T_summary == <<"s">>

\* FeedFetcher._parse_entry: the dict of a parsed entry (news_source and date
\* are carried along unchanged and not read by any stage)
ParsedArticle(url, title, description) ==
    [url |-> url, title |-> title, description |-> description,
     type |-> None, location |-> None, coordinates |-> NoCoordinates]

\* the dict of an entry with a link, a title and a description
NewArticle(url) == ParsedArticle(url, T_title, T_description)

(***************************************************************************)
(* The inference backend: what one invoke_model call can do.               *)
(***************************************************************************)
TextResponse(t) == [kind |-> "text", text |-> t]
\* a body that parses but holds no 'content' (or an empty one)
NoContentResponse == [kind |-> "no_content", text |-> <<>>]
\* invoke_model raises (network, throttling, credentials)
TransportError == [kind |-> "transport_error", text |-> <<>>]
\* json.loads or the walk over the content items raises
ParseError == [kind |-> "parse_error", text |-> <<>>]
\* run_in_executor itself raises: the request never reaches the backend
ExecutorError == [kind |-> "executor_error", text |-> <<>>]

ErrorResponses == {NoContentResponse, TransportError, ParseError, ExecutorError}

\* a variant of _invoke_claude_messages that lets the backend's error surface
invoke_claude_messages_raising(resp) ==
    CASE resp.kind = "text" ->
            [raised |-> FALSE, text |-> strip(resp.text), requests |-> 1]
      [] resp.kind = "no_content" ->
            [raised |-> FALSE, text |-> <<>>, requests |-> 1]
      [] OTHER ->
            [raised |-> TRUE, text |-> <<>>, requests |-> 1]

\* ArticleProcessor._invoke_claude_messages: one invoke_model call, submitted
\* once to the executor; requests counts the submissions
invoke_claude_messages(resp) ==
    CASE resp.kind = "executor_error" ->
            [raised |-> TRUE, text |-> <<>>, requests |-> 1]
      [] resp.kind = "text" ->
            [raised |-> FALSE, text |-> strip(resp.text), requests |-> 1]
      [] resp.kind = "no_content" ->
            [raised |-> FALSE, text |-> <<>>, requests |-> 1]
      [] OTHER ->
            \* except Exception: return "social"
            [raised |-> FALSE, text |-> T_social, requests |-> 1]

\* a variant of classify_article that compares without lower-casing
classify_article_no_lower(article, resp) ==
    LET r == invoke_claude_messages(resp)
        category == strip_chars(
                        replace_with_empty(
                            replace_with_empty(strip(strip(r.text)), "\""),
                            "'"),
                        {"."})
    IN  IF r.raised \/ category \notin VALID_CATEGORIES
        THEN [ok |-> FALSE, article |-> article, requests |-> r.requests]
        ELSE [ok |-> TRUE, article |-> [article EXCEPT !.type = category],
              requests |-> r.requests]

\* a variant of classify_article that does not check the category
classify_article_unchecked(article, resp) ==
    LET r == invoke_claude_messages(resp)
        category == lower(strip(r.text))
    IN  IF r.raised
        THEN [ok |-> FALSE, article |-> article, requests |-> r.requests]
        ELSE [ok |-> TRUE, article |-> [article EXCEPT !.type = category],
              requests |-> r.requests]

\* ArticleProcessor.classify_article; ok = FALSE is "return None"
classify_article(article, resp) ==
    LET r == invoke_claude_messages(resp)
        category0 == lower(strip(r.text))
        category == strip_chars(
                        replace_with_empty(
                            replace_with_empty(lower(strip(category0)), "\""),
                            "'"),
                        {"."})
    IN  IF r.raised
        THEN \* except Exception: return None
             [ok |-> FALSE, article |-> article, requests |-> r.requests]
        ELSE IF category \notin VALID_CATEGORIES
        THEN [ok |-> FALSE, article |-> article, requests |-> r.requests]
        ELSE [ok |-> TRUE, article |-> [article EXCEPT !.type = category],
              requests |-> r.requests]

\* a variant of extract_location whose test for "Mexico" is case-sensitive
extract_location_case_sensitive(article, resp) ==
    LET r == invoke_claude_messages(resp)
        location == strip(r.text)
    IN  IF r.raised
        THEN [ok |-> TRUE, article |-> [article EXCEPT !.location = T_Mexico],
              requests |-> r.requests]
        ELSE IF lower(location) = T_no_location \/ location = <<>>
        THEN [ok |-> FALSE, article |-> article, requests |-> r.requests]
        ELSE [ok |-> TRUE,
              article |-> [article EXCEPT !.location =
                              IF /\ ~contains(location, T_Mexico)
                                 /\ ~contains(location, T_Mexico_cap_acute)
                              THEN location \o T_comma_Mexico
                              ELSE location],
              requests |-> r.requests]

\* ArticleProcessor.extract_location; ok = FALSE is "return None"
extract_location(article, resp) ==
    LET r == invoke_claude_messages(resp)
        location == strip(r.text)
    IN  IF r.raised
        THEN \* except Exception: article['location'] = "Mexico"
             [ok |-> TRUE, article |-> [article EXCEPT !.location = T_Mexico],
              requests |-> r.requests]
        ELSE IF lower(location) = T_no_location \/ location = <<>>
        THEN [ok |-> FALSE, article |-> article, requests |-> r.requests]
        ELSE [ok |-> TRUE,
              article |-> [article EXCEPT !.location =
                              IF /\ ~contains(lower(location), T_mexico)
                                 /\ ~contains(lower(location), T_mexico_acute)
                              THEN location \o T_comma_Mexico
                              ELSE location],
              requests |-> r.requests]

(***************************************************************************)
(* The geocoding backend: what one GET can do.                             *)
(***************************************************************************)
\* session.get, response.json() or features[0]['center'] raises
GeoException == [kind |-> "exception", status |-> 0, features |-> <<>>]
GeoStatus(s) == [kind |-> "response", status |-> s, features |-> <<>>]
GeoOk(features) == [kind |-> "response", status |-> 200, features |-> features]

Centers == {<<-99, 19>>, <<-100, 25>>}

GeoOutcomes ==
    {GeoException, GeoStatus(429), GeoStatus(500), GeoOk(<<>>),
     GeoOk(<<[center |-> <<-99, 19>>], [center |-> <<-100, 25>>]>>)}
        \cup {GeoOk(<<[center |-> c]>>) : c \in Centers}

\* a variant of the retry loop that treats an empty result as a failed attempt
geocode_response_retry_empty(article, k, o) ==
    IF o.kind = "response" /\ o.status = 200 /\ o.features # <<>>
    THEN [next |-> "return", ok |-> TRUE,
          article |-> [article EXCEPT !.coordinates = o.features[1].center]]
    ELSE IF k < MAX_RETRIES - 1
         THEN [next |-> "sleep", ok |-> FALSE, article |-> article]
         ELSE [next |-> "return", ok |-> FALSE, article |-> article]

\* a variant of the retry loop that also sleeps after the last attempt
geocode_response_sleep_always(article, k, o) ==
    IF o.kind = "response" /\ o.status = 200
    THEN IF o.features # <<>>
         THEN [next |-> "return", ok |-> TRUE,
               article |-> [article EXCEPT
                               !.coordinates = o.features[1].center]]
         ELSE [next |-> "return", ok |-> FALSE, article |-> article]
    ELSE [next |-> "sleep", ok |-> FALSE, article |-> article]

\* Geocoder.geocode_location, from the outcome o of the GET of attempt k to
\* the next suspension point: return, or sleep before the next attempt
geocode_response(article, k, o) ==
    IF o.kind = "response" /\ o.status = 200
    THEN IF o.features # <<>>
         THEN [next |-> "return", ok |-> TRUE,
               article |-> [article EXCEPT
                               !.coordinates = o.features[1].center]]
         ELSE [next |-> "return", ok |-> FALSE, article |-> article]
    ELSE IF k < MAX_RETRIES - 1
         THEN [next |-> "sleep", ok |-> FALSE, article |-> article]
         ELSE [next |-> "return", ok |-> FALSE, article |-> article]

\* for attempt in range(MAX_RETRIES): is there an attempt numbered n
geocode_has_attempt(n) == n < MAX_RETRIES

\* a variant of the INSERT without its ON CONFLICT clause and without the
\* UNIQUE constraint on url
insert_article_no_conflict(rows, article) ==
    rows \cup {[url |-> article.url, type |-> article.type,
                coordinates |-> article.coordinates]}

\* Database.insert_article on the news table: INSERT ... ON CONFLICT (url) DO
\* NOTHING; the table keeps url, type and coordinates of the article (and the
\* columns no stage writes), not its location
insert_article(rows, article) ==
    IF \E r \in rows : r.url = article.url
    THEN rows
    ELSE rows \cup {[url |-> article.url, type |-> article.type,
                     coordinates |-> article.coordinates]}

\* Database.insert_article returns the id of the new row (TRUE), or None when
\* RETURNING gave no row because the url was stored already (FALSE)
insert_article_returns_id(rows, article) ==
    ~\E r \in rows : r.url = article.url

(***************************************************************************)
(* asyncio.Queue as process_articles, lambda_main and the producer use it. *)
(***************************************************************************)
\* Queue.task_done on the counters [unfinished, finished]: raises ValueError
\* when no task is unfinished, else counts down and sets the finished event
\* at zero
task_done(q) ==
    IF q.unfinished <= 0
    THEN [unfinished |-> q.unfinished, finished |-> q.finished, raised |-> TRUE]
    ELSE [unfinished |-> q.unfinished - 1,
          finished |-> q.finished \/ (q.unfinished - 1 = 0),
          raised |-> FALSE]

\* a finally clause that does not call task_done
task_done_finally_skipped(q) ==
    [unfinished |-> q.unfinished, finished |-> q.finished, raised |-> FALSE]

\* process_articles, success and exception paths: the finally clause alone
task_done_finally(q) == task_done(q)

\* process_articles, the three "if not ...: task_done(); continue" paths:
\* task_done in the try block (its ValueError is caught by except Exception),
\* then task_done again in the finally clause (its ValueError ends the task)
task_done_discard(q) == task_done(task_done(q))

(***************************************************************************)
(* The pipeline: worker tasks running ArticleProcessor.process_articles.   *)
(* Each action runs one task from the completion of the await it is        *)
(* suspended in to its next suspension point, as the event loop does.      *)
(***************************************************************************)
Workers == 1..num_workers

StageOrder == <<"classify", "extract", "geocode", "insert">>

\* what the inference and geocoding backends answer in one-shot mode
BatchClassifyResponses ==
    {TextResponse(<<" ">> \o T_Crime \o <<".">>),
     TextResponse(<<"\"">> \o T_DISCARD \o <<"\"">>),
     TextResponse(T_Discard \o <<".">>),
     NoContentResponse, TransportError, ParseError, ExecutorError}

BatchLocationResponses ==
    {TextResponse(T_Monterrey), TextResponse(T_NO_LOCATION),
     NoContentResponse, TransportError, ExecutorError}

BatchGeoOutcomes ==
    {GeoException, GeoStatus(500), GeoOk(<<>>),
     GeoOk(<<[center |-> <<-99, 19>>]>>)}

\* what they answer in continuous mode, where more articles are in play: one
\* answer for each way a stage can end
PolledClassifyResponses ==
    {TextResponse(T_crime), TextResponse(T_DISCARD)}

PolledLocationResponses ==
    {TextResponse(T_Monterrey_Mexico), TextResponse(T_NO_LOCATION)}

PolledGeoOutcomes ==
    {GeoException, GeoOk(<<>>), GeoOk(<<[center |-> <<-99, 19>>]>>)}

Continuous == prodpc # "none"

PipelineClassifyResponses ==
    IF Continuous THEN PolledClassifyResponses ELSE BatchClassifyResponses

PipelineLocationResponses ==
    IF Continuous THEN PolledLocationResponses ELSE BatchLocationResponses

PipelineGeoOutcomes ==
    IF session["geocoder"] # "open" THEN {GeoException}
    ELSE IF Continuous THEN PolledGeoOutcomes ELSE BatchGeoOutcomes

QueueCounters == [unfinished |-> unfinished, finished |-> finished]

\* a queue whose get() returns the first article and leaves it in the queue
NextIterationPeeking(w, q, stg) ==
    /\ unfinished' = q.unfinished
    /\ finished' = q.finished
    /\ attempt' = [attempt EXCEPT ![w] = 0]
    /\ queue' = queue
    /\ IF q.raised
       THEN /\ pc' = [pc EXCEPT ![w] = "crashed"]
            /\ cur' = [cur EXCEPT ![w] = 0]
            /\ stages' = stg
       ELSE IF queue # <<>>
       THEN /\ pc' = [pc EXCEPT ![w] = "classify"]
            /\ cur' = [cur EXCEPT ![w] = Head(queue)]
            /\ stages' = [stg EXCEPT ![Head(queue)] = Append(@, "classify")]
       ELSE /\ pc' = [pc EXCEPT ![w] = "get"]
            /\ cur' = [cur EXCEPT ![w] = 0]
            /\ stages' = stg

\* process_articles after the article of worker w ended with the task_done
\* calls that gave q: a ValueError out of the finally clause ends the task;
\* otherwise the loop goes on to "await article_queue.get()", which returns
\* at once when an article waits (and classify_article sends its request),
\* and suspends when none does. stg is the stage history so far.
NextIteration(w, q, stg) ==
    /\ unfinished' = q.unfinished
    /\ finished' = q.finished
    /\ attempt' = [attempt EXCEPT ![w] = 0]
    /\ IF q.raised
       THEN /\ pc' = [pc EXCEPT ![w] = "crashed"]
            /\ cur' = [cur EXCEPT ![w] = 0]
            /\ queue' = queue
            /\ stages' = stg
       ELSE IF queue # <<>>
       THEN /\ pc' = [pc EXCEPT ![w] = "classify"]
            /\ cur' = [cur EXCEPT ![w] = Head(queue)]
            /\ queue' = Tail(queue)
            /\ stages' = [stg EXCEPT ![Head(queue)] = Append(@, "classify")]
       ELSE /\ pc' = [pc EXCEPT ![w] = "get"]
            /\ cur' = [cur EXCEPT ![w] = 0]
            /\ queue' = queue
            /\ stages' = stg

\* the worker tasks were created together and the event loop runs ready
\* tasks first in, first out: each takes its first step, in creation order,
\* before the completion of any network call is delivered
AllStarted == \A v \in Workers : pc[v] # "start"

\* the task of worker w runs for the first time: "await article_queue.get()"
WorkerStart(w) ==
    /\ pc[w] = "start"
    /\ \A v \in Workers : v < w => pc[v] # "start"
    /\ ~cancelRequested[w]
    /\ NextIteration(w, [unfinished |-> unfinished, finished |-> finished,
                         raised |-> FALSE], stages)
    /\ UNCHANGED <<art, cancelRequested, store, mainpc, prodpc, outcome,
                   call, lifeVars>>

\* a worker suspended in article_queue.get() is woken by a put. The waiting
\* workers hold no state and are interchangeable: the lowest-numbered one
\* stands for whichever the queue wakes.
WorkerWake(w) ==
    /\ pc[w] = "get"
    /\ \A v \in Workers : v < w => pc[v] # "get"
    /\ ~cancelRequested[w]
    /\ queue # <<>>
    /\ NextIteration(w, [unfinished |-> unfinished, finished |-> finished,
                         raised |-> FALSE], stages)
    /\ UNCHANGED <<art, cancelRequested, store, mainpc, prodpc, outcome,
                   call, lifeVars>>

\* a variant of the classify step that goes on to extract_location although
\* classify_article returned None
ClassifyDoneNoContinue(w) ==
    /\ pc[w] = "classify"
    /\ AllStarted
    /\ ~cancelRequested[w]
    /\ \E resp \in PipelineClassifyResponses :
          LET res == classify_article(art[cur[w]], resp) IN
          /\ art' = [art EXCEPT ![cur[w]] = res.article]
          /\ pc' = [pc EXCEPT ![w] = "extract"]
          /\ stages' = [stages EXCEPT ![cur[w]] = Append(@, "extract")]
          /\ outcome' = IF res.ok THEN outcome
                        ELSE [outcome EXCEPT ![cur[w]] = "discarded_classify"]
          /\ UNCHANGED <<queue, unfinished, finished, cur, attempt>>
    /\ UNCHANGED <<cancelRequested, store, mainpc, prodpc, call, lifeVars>>

\* process_articles, step 1: classify_article returns
ClassifyDone(w) ==
    /\ pc[w] = "classify"
    /\ AllStarted
    /\ ~cancelRequested[w]
    /\ \E resp \in PipelineClassifyResponses :
          LET res == classify_article(art[cur[w]], resp) IN
          IF res.ok
          THEN \* extract_location is called and sends its request
               /\ art' = [art EXCEPT ![cur[w]] = res.article]
               /\ pc' = [pc EXCEPT ![w] = "extract"]
               /\ stages' = [stages EXCEPT ![cur[w]] = Append(@, "extract")]
               /\ UNCHANGED <<queue, unfinished, finished, cur, attempt,
                              outcome>>
          ELSE \* task_done(); continue
               /\ art' = art
               /\ outcome' = [outcome EXCEPT ![cur[w]] = "discarded_classify"]
               /\ NextIteration(w, task_done_discard(QueueCounters), stages)
    /\ UNCHANGED <<cancelRequested, store, mainpc, prodpc, call, lifeVars>>

\* process_articles, step 2: extract_location returns
ExtractDone(w) ==
    /\ pc[w] = "extract"
    /\ ~cancelRequested[w]
    /\ \E resp \in PipelineLocationResponses :
          LET res == extract_location(art[cur[w]], resp) IN
          IF res.ok /\ geocode_has_attempt(0)
          THEN \* geocode_location is called and sends its first GET
               /\ art' = [art EXCEPT ![cur[w]] = res.article]
               /\ pc' = [pc EXCEPT ![w] = "geocode"]
               /\ attempt' = [attempt EXCEPT ![w] = 0]
               /\ stages' = [stages EXCEPT ![cur[w]] = Append(@, "geocode")]
               /\ UNCHANGED <<queue, unfinished, finished, cur, outcome>>
          ELSE IF res.ok
          THEN \* geocode_location's loop has no attempt: it returns None
               /\ art' = [art EXCEPT ![cur[w]] = NewArticle(@.url)]
               /\ outcome' = [outcome EXCEPT ![cur[w]] = "discarded_geocode"]
               /\ NextIteration(w, task_done_discard(QueueCounters),
                     [stages EXCEPT ![cur[w]] = Append(@, "geocode")])
          ELSE \* task_done(); continue
               /\ art' = [art EXCEPT ![cur[w]] = NewArticle(@.url)]
               /\ outcome' = [outcome EXCEPT ![cur[w]] = "discarded_extract"]
               /\ NextIteration(w, task_done_discard(QueueCounters), stages)
    /\ UNCHANGED <<cancelRequested, store, mainpc, prodpc, call, lifeVars>>

\* process_articles, step 4 with its finally clause: db.insert_article is
\* called with the geocoded article a; it inserts, finds the url stored, or
\* raises (the exception is caught and logged)
Persist(w, a, raises) ==
    /\ art' = [art EXCEPT ![cur[w]] = a]
    /\ store' = IF raises THEN store ELSE insert_article(store, a)
    /\ outcome' = [outcome EXCEPT ![cur[w]] =
                      IF raises THEN "insert_error"
                      ELSE IF \E r \in store : r.url = a.url THEN "duplicate"
                      ELSE "persisted"]
    /\ NextIteration(w, task_done_finally(QueueCounters),
                     [stages EXCEPT ![cur[w]] = Append(@, "insert")])

\* process_articles, step 3: the GET of geocode_location's current attempt
\* completes
GeocodeDone(w) ==
    /\ pc[w] = "geocode"
    /\ ~cancelRequested[w]
    /\ \E o \in PipelineGeoOutcomes, raises \in BOOLEAN :
          LET res == geocode_response(art[cur[w]], attempt[w], o) IN
          IF res.next = "sleep"
          THEN /\ ~raises
               /\ pc' = [pc EXCEPT ![w] = "sleep"]
               /\ UNCHANGED <<queue, unfinished, finished, art, cur, attempt,
                              store, stages, outcome>>
          ELSE IF res.ok
          THEN Persist(w, res.article, raises)
          ELSE \* task_done(); continue
               /\ ~raises
               /\ art' = [art EXCEPT ![cur[w]] = NewArticle(@.url)]
               /\ outcome' = [outcome EXCEPT ![cur[w]] = "discarded_geocode"]
               /\ NextIteration(w, task_done_discard(QueueCounters), stages)
               /\ UNCHANGED store
    /\ UNCHANGED <<cancelRequested, mainpc, prodpc, call, lifeVars>>

\* geocode_location: asyncio.sleep(RETRY_DELAY) completes
SleepDone(w) ==
    /\ pc[w] = "sleep"
    /\ ~cancelRequested[w]
    /\ IF geocode_has_attempt(attempt[w] + 1)
       THEN /\ pc' = [pc EXCEPT ![w] = "geocode"]
            /\ attempt' = [attempt EXCEPT ![w] = @ + 1]
            /\ UNCHANGED <<queue, unfinished, finished, cur, stages, outcome>>
            /\ art' = art
       ELSE \* the loop is over: return None; task_done(); continue
            /\ art' = [art EXCEPT ![cur[w]] = NewArticle(@.url)]
            /\ outcome' = [outcome EXCEPT ![cur[w]] = "discarded_geocode"]
            /\ NextIteration(w, task_done_discard(QueueCounters), stages)
    /\ UNCHANGED <<cancelRequested, store, mainpc, prodpc, call, lifeVars>>

\* a variant of the cancellation that writes the article in flight to the
\* store before the task ends
WorkerCancelledPersisting(w) ==
    /\ cancelRequested[w]
    /\ pc[w] \in {"start", "get", "classify", "extract", "geocode", "sleep"}
    /\ IF pc[w] \in {"start", "get"}
       THEN /\ pc' = [pc EXCEPT ![w] = "cancelled"]
            /\ UNCHANGED <<unfinished, finished, art, cur, outcome, store>>
       ELSE LET q == task_done_finally(QueueCounters) IN
            /\ unfinished' = q.unfinished
            /\ finished' = q.finished
            /\ pc' = [pc EXCEPT ![w] = IF q.raised THEN "crashed"
                                       ELSE "cancelled"]
            /\ cur' = [cur EXCEPT ![w] = 0]
            /\ art' = art
            /\ store' = insert_article(store, art[cur[w]])
            /\ outcome' = [outcome EXCEPT ![cur[w]] = "cancelled"]
    /\ UNCHANGED <<queue, attempt, cancelRequested, mainpc, prodpc, stages,
                   call, lifeVars>>

\* CancelledError is thrown into the task of worker w at its suspension point.
\* In article_queue.get() (or before its first step) the task just ends;
\* inside the try block the finally clause calls task_done first, and a
\* ValueError from it replaces the CancelledError.
WorkerCancelled(w) ==
    /\ cancelRequested[w]
    /\ pc[w] \in {"start", "get", "classify", "extract", "geocode", "sleep"}
    /\ IF pc[w] \in {"start", "get"}
       THEN /\ pc' = [pc EXCEPT ![w] = "cancelled"]
            /\ UNCHANGED <<unfinished, finished, art, cur, outcome>>
       ELSE LET q == task_done_finally(QueueCounters) IN
            /\ unfinished' = q.unfinished
            /\ finished' = q.finished
            /\ pc' = [pc EXCEPT ![w] = IF q.raised THEN "crashed"
                                       ELSE "cancelled"]
            /\ cur' = [cur EXCEPT ![w] = 0]
            /\ art' = [art EXCEPT ![cur[w]] = NewArticle(@.url)]
            /\ outcome' = [outcome EXCEPT ![cur[w]] = "cancelled"]
    /\ UNCHANGED <<queue, attempt, cancelRequested, store, mainpc,
                   prodpc, stages, call, lifeVars>>

(***************************************************************************)
(* The aiohttp sessions, the feed task and the shutdown tasks.             *)
(***************************************************************************)
\* FeedFetcher.session, Geocoder.session and ArticleProcessor.bedrock_client
Sessions == {"feed_fetcher", "geocoder", "article_processor"}

\* the shutdown tasks the signal handlers may create
Shutdowns == 1..MaxSignals

\* Database.__init__: conn and cursor are None (0), no connection was made
\* and no method of a connection was called
NoDatabase == [conn |-> 0, cursor |-> 0, conns |-> <<>>, calls |-> <<>>]

\* no url seen, both sessions in state s, no signal received, the process
\* running, the Database object new
InitLife(s) ==
    /\ processed_urls = {}
    /\ session = [c \in Sessions |-> s]
    /\ feedCancelled = FALSE
    /\ shutpc = [h \in Shutdowns |-> "none"]
    /\ timedOut = FALSE
    /\ cycles = 0
    /\ exitStatus = "running"
    /\ db = NoDatabase

(***************************************************************************)
(* One-shot mode: lambda_main.                                             *)
(***************************************************************************)
NoCall ==
    [fn |-> "none", phase |-> "none", resp |-> NoContentResponse,
     article |-> NewArticle(0), ok |-> FALSE, requests |-> 0, attempt |-> 0,
     log |-> <<>>]

\* lambda_main is suspended in "await feed_fetcher.fetch_all_feeds()": the
\* queue is new and no worker task exists yet
InitLambda ==
    /\ queue = <<>>
    /\ unfinished = 0
    /\ finished = TRUE
    /\ art = <<>>
    /\ pc = [w \in Workers |-> "none"]
    /\ cur = [w \in Workers |-> 0]
    /\ attempt = [w \in Workers |-> 0]
    /\ cancelRequested = [w \in Workers |-> FALSE]
    /\ store = {}
    /\ mainpc = "fetch"
    /\ prodpc = "none"
    /\ stages = <<>>
    /\ outcome = <<>>
    /\ call = NoCall
    /\ InitLife("open")

\* lambda_main from the return of fetch_all_feeds with n new articles: put
\* each, create the worker tasks, "await article_queue.join()". join suspends
\* only while tasks are unfinished; with none, it returns at once and the
\* workers are cancelled before their first step.
LambdaFetched ==
    /\ mainpc = "fetch"
    /\ \E n \in 0..MaxBatch :
          /\ art' = [i \in 1..n |-> NewArticle(i)]
          /\ queue' = [i \in 1..n |-> i]
          /\ unfinished' = n
          /\ finished' = (n = 0)
          /\ stages' = [i \in 1..n |-> <<>>]
          /\ outcome' = [i \in 1..n |-> "pending"]
          /\ pc' = [w \in Workers |-> "start"]
          /\ mainpc' = IF n = 0 THEN "gather" ELSE "join"
          /\ cancelRequested' = [w \in Workers |-> n = 0]
    /\ UNCHANGED <<cur, attempt, store, prodpc, call, lifeVars>>

\* lambda_main from the return of join: task.cancel() on every worker task,
\* then "await asyncio.gather(*worker_tasks, return_exceptions=True)"
JoinReturns ==
    /\ mainpc = "join"
    /\ finished
    /\ cancelRequested' = [w \in Workers |-> pc[w] \notin {"crashed", "cancelled"}]
    /\ mainpc' = "gather"
    /\ UNCHANGED <<queue, unfinished, finished, art, pc, cur, attempt, store,
                   prodpc, stages, outcome, call, lifeVars>>

\* lambda_main from the return of gather, through the finally clause
GatherReturns ==
    /\ mainpc = "gather"
    /\ \A w \in Workers : pc[w] \in {"crashed", "cancelled"}
    /\ mainpc' = "done"
    /\ session' = [session EXCEPT !["geocoder"] = "closed",
                                  !["feed_fetcher"] = "closed"]
    /\ UNCHANGED <<queue, unfinished, finished, art, pc, cur, attempt,
                   cancelRequested, store, prodpc, stages, outcome,
                   call, processed_urls, feedCancelled, shutpc, timedOut,
                   cycles, exitStatus, db>>

NextLambda ==
    \/ LambdaFetched
    \/ JoinReturns
    \/ GatherReturns
    \/ \E w \in Workers : WorkerStart(w)
    \/ \E w \in Workers : ClassifyDone(w)
    \/ \E w \in Workers : ExtractDone(w)
    \/ \E w \in Workers : GeocodeDone(w)
    \/ \E w \in Workers : SleepDone(w)
    \/ \E w \in Workers : WorkerCancelled(w)

\* one-shot mode
Spec == InitLambda /\ [][NextLambda]_vars

(***************************************************************************)
(* Continuous mode: main, with FeedFetcher.poll_feeds_continuously as the  *)
(* producer. No shutdown signal arrives.                                   *)
(***************************************************************************)
\* main is suspended in "await feed_task"; the producer has initialized and
\* waits for its first fetch_all_feeds; every worker task has taken its first
\* step and is suspended in article_queue.get() on the empty queue
InitMain ==
    /\ queue = <<>>
    /\ unfinished = 0
    /\ finished = TRUE
    /\ art = <<>>
    /\ pc = [w \in Workers |-> "get"]
    /\ cur = [w \in Workers |-> 0]
    /\ attempt = [w \in Workers |-> 0]
    /\ cancelRequested = [w \in Workers |-> FALSE]
    /\ store = {}
    /\ mainpc = "await_feed"
    /\ prodpc = "fetching"
    /\ stages = <<>>
    /\ outcome = <<>>
    /\ call = NoCall
    /\ InitLife("open")

\* poll_feeds_continuously from the return of fetch_all_feeds with k new
\* articles (none when the cycle raised), at most limit articles in the
\* run: put each, then "await asyncio.sleep(POLLING_INTERVAL)" in the finally
\* clause
ProducerFetchedUpTo(limit) ==
    /\ prodpc = "fetching"
    /\ ~feedCancelled
    /\ \E k \in 0..(limit - Len(art)) :
          LET n == Len(art) IN
          /\ art' = art \o [i \in 1..k |-> NewArticle(n + i)]
          /\ queue' = queue \o [i \in 1..k |-> n + i]
          /\ unfinished' = unfinished + k
          /\ finished' = (finished /\ k = 0)
          /\ stages' = stages \o [i \in 1..k |-> <<>>]
          /\ outcome' = outcome \o [i \in 1..k |-> "pending"]
    /\ prodpc' = "sleeping"
    /\ UNCHANGED <<pc, cur, attempt, cancelRequested, store, mainpc,
                   call, lifeVars>>

ProducerFetched == ProducerFetchedUpTo(MaxPolled)

\* poll_feeds_continuously: the sleep ends and the next cycle's
\* fetch_all_feeds is awaited
ProducerWake ==
    /\ prodpc = "sleeping"
    /\ ~feedCancelled
    /\ prodpc' = "fetching"
    /\ UNCHANGED <<queue, unfinished, finished, art, pc, cur, attempt,
                   cancelRequested, store, mainpc, stages, outcome,
                   call, lifeVars>>

NextMain ==
    \/ ProducerFetched
    \/ ProducerWake
    \/ \E w \in Workers : WorkerWake(w)
    \/ \E w \in Workers : ClassifyDone(w)
    \/ \E w \in Workers : ExtractDone(w)
    \/ \E w \in Workers : GeocodeDone(w)
    \/ \E w \in Workers : SleepDone(w)

\* continuous mode
SpecMain == InitMain /\ [][NextMain]_vars

(***************************************************************************)
(* Continuous mode with SIGINT / SIGTERM: main, the producer, the workers  *)
(* and the shutdown tasks the signal handlers create.                      *)
(***************************************************************************)
\* what no step of main, of the producer's cancellation or of shutdown
\* changes
workVars ==
    <<queue, unfinished, finished, art, pc, cur, attempt, store, stages,
      outcome, call, processed_urls, cycles, db>>

\* "await self.session.close()" on a session in state st: the session's state
\* afterwards and whether the caller is suspended in the call. A closed
\* session returns at once; one that another task is closing is left to that
\* task.
close_outcomes(st) ==
    IF st = "closed"
    THEN {[state |-> "closed", suspended |-> FALSE]}
    ELSE IF st = "closing"
    THEN {[state |-> "closing", suspended |-> FALSE],
          [state |-> "closing", suspended |-> TRUE]}
    ELSE {[state |-> "closed", suspended |-> FALSE],
          [state |-> "closing", suspended |-> TRUE]}

\* "for task in worker_tasks: task.cancel()"; cancel does nothing to a task
\* that is done
cancel_workers ==
    [w \in Workers |->
        cancelRequested[w] \/ pc[w] \notin {"crashed", "cancelled"}]

\* a task that is suspended in session.close() is cancelled
close_interrupted(st) == IF st = "closing" THEN "interrupted" ELSE st

\* the shutdown tasks after asyncio.run cancels what is left of them; a task
\* cancelled before its first step never runs
shutdowns_cancelled ==
    [h \in Shutdowns |->
        IF shutpc[h] \in {"none", "exited"} THEN shutpc[h]
        ELSE IF shutpc[h] = "created" THEN "never_ran"
        ELSE "cancelled"]

\* poll_feeds_continuously reaches "finally: await self.close()"
ProducerCloses ==
    \E o \in close_outcomes(session["feed_fetcher"]) :
        /\ session' = [session EXCEPT !["feed_fetcher"] = o.state]
        /\ prodpc' = IF o.suspended THEN "closing" ELSE "done"

\* the CancelledError of feed_task.cancel() is raised in the producer where
\* it is suspended. In fetch_all_feeds it passes through "except Exception"
\* into the inner "finally: await asyncio.sleep(POLLING_INTERVAL)"; in a
\* sleep it leaves the loop for the outer finally; in close() it ends the
\* task with the session's close unfinished.
ProducerCancelled ==
    /\ feedCancelled
    /\ prodpc \in {"fetching", "sleeping", "finally_sleep", "closing"}
    /\ feedCancelled' = FALSE
    /\ IF prodpc = "fetching"
       THEN /\ prodpc' = "finally_sleep"
            /\ UNCHANGED session
       ELSE IF prodpc = "closing"
       THEN /\ prodpc' = "done"
            /\ session' = [session EXCEPT !["feed_fetcher"] =
                                              close_interrupted(@)]
       ELSE ProducerCloses
    /\ UNCHANGED <<workVars, cancelRequested, mainpc, shutpc, timedOut,
                   exitStatus, db>>

\* the sleep of the inner finally ends and the CancelledError it held back
\* leaves the loop
ProducerFinallySlept ==
    /\ prodpc = "finally_sleep"
    /\ ~feedCancelled
    /\ ProducerCloses
    /\ UNCHANGED <<workVars, cancelRequested, mainpc, feedCancelled, shutpc,
                   timedOut, exitStatus, db>>

\* FeedFetcher.close returns
ProducerClosed ==
    /\ prodpc = "closing"
    /\ ~feedCancelled
    /\ prodpc' = "done"
    /\ session' = [session EXCEPT !["feed_fetcher"] = "closed"]
    /\ UNCHANGED <<workVars, cancelRequested, mainpc, feedCancelled, shutpc,
                   timedOut, exitStatus, db>>

\* main returns: "await feed_task" raised CancelledError, which is no
\* Exception, so asyncio.run(main()) raises it after cancelling every task
\* that is left
MainReturns ==
    /\ mainpc' = "returned"
    /\ exitStatus' = "CancelledError"
    /\ cancelRequested' = cancel_workers
    /\ shutpc' = shutdowns_cancelled

\* main from the end of feed_task: "finally: await geocoder.close()"
MainFeedDone ==
    /\ mainpc = "await_feed"
    /\ prodpc = "done"
    /\ \E o \in close_outcomes(session["geocoder"]) :
          /\ session' = [session EXCEPT !["geocoder"] = o.state]
          /\ IF o.suspended
             THEN /\ mainpc' = "closing_geocoder"
                  /\ UNCHANGED <<cancelRequested, shutpc, exitStatus, db>>
             ELSE MainReturns
    /\ UNCHANGED <<workVars, prodpc, feedCancelled, timedOut>>

\* main from the return of geocoder.close()
MainClosed ==
    /\ mainpc = "closing_geocoder"
    /\ session' = [session EXCEPT !["geocoder"] = "closed"]
    /\ MainReturns
    /\ UNCHANGED <<workVars, prodpc, feedCancelled, timedOut>>

\* the signal handler: asyncio.create_task(shutdown(...)); h counts the
\* signals in the order of their arrival
Signal(h) ==
    /\ exitStatus = "running"
    /\ shutpc[h] = "none"
    /\ \A g \in Shutdowns : g < h => shutpc[g] # "none"
    /\ shutpc' = [shutpc EXCEPT ![h] = "created"]
    /\ UNCHANGED <<workVars, cancelRequested, mainpc, prodpc, session,
                   feedCancelled, timedOut, exitStatus, db>>

\* shutdown after the feed task: task.cancel() on every worker, then
\* "await asyncio.gather(*worker_tasks, return_exceptions=True)"
ShutdownCancelsWorkers(h) ==
    /\ cancelRequested' = cancel_workers
    /\ shutpc' = [shutpc EXCEPT ![h] = "gather"]

\* a shutdown that waits for the feed task without cancelling it
ShutdownStartWithoutCancel(h) ==
    /\ shutpc[h] = "created"
    /\ IF prodpc = "done"
       THEN ShutdownCancelsWorkers(h)
       ELSE /\ shutpc' = [shutpc EXCEPT ![h] = "wait_feed"]
            /\ UNCHANGED cancelRequested
    /\ UNCHANGED <<workVars, mainpc, prodpc, session, feedCancelled,
                   timedOut, exitStatus, db>>

\* shutdown from its first step: feed_task.cancel(), then
\* "await asyncio.wait_for(feed_task, timeout=5)", which returns at once for
\* a task that is done
ShutdownStart(h) ==
    /\ shutpc[h] = "created"
    /\ IF prodpc = "done"
       THEN /\ ShutdownCancelsWorkers(h)
            /\ UNCHANGED feedCancelled
       ELSE /\ feedCancelled' = TRUE
            /\ shutpc' = [shutpc EXCEPT ![h] = "wait_feed"]
            /\ UNCHANGED cancelRequested
    /\ UNCHANGED <<workVars, mainpc, prodpc, session, timedOut, exitStatus, db>>

\* wait_for's timeout: the feed task, which has taken the first cancellation
\* and still runs, is cancelled again, and wait_for waits for it to end
ShutdownTimeout(h) ==
    /\ shutpc[h] = "wait_feed"
    /\ prodpc # "done"
    /\ ~feedCancelled
    /\ timedOut' = TRUE
    /\ feedCancelled' = TRUE
    /\ shutpc' = [shutpc EXCEPT ![h] = "wait_cancelled"]
    /\ UNCHANGED <<workVars, cancelRequested, mainpc, prodpc, session,
                   exitStatus, db>>

\* wait_for raises CancelledError or TimeoutError once the feed task is done;
\* main, which awaited the task first, has been resumed before
ShutdownFeedDone(h) ==
    /\ shutpc[h] \in {"wait_feed", "wait_cancelled"}
    /\ prodpc = "done"
    /\ mainpc # "await_feed"
    /\ ShutdownCancelsWorkers(h)
    /\ UNCHANGED <<workVars, mainpc, prodpc, session, feedCancelled,
                   timedOut, exitStatus, db>>

\* sys.exit(0) in a shutdown task: SystemExit leaves the event loop, and
\* asyncio.run cancels every task that is left, main in its close() included
ShutdownExits(h) ==
    /\ exitStatus' = "SystemExit"
    /\ shutpc' = [shutdowns_cancelled EXCEPT ![h] = "exited"]
    /\ mainpc' = IF mainpc = "closing_geocoder" THEN "cancelled" ELSE mainpc

\* shutdown from the return of gather: "await geocoder.close()"
ShutdownGathered(h) ==
    /\ shutpc[h] = "gather"
    /\ mainpc # "await_feed"
    /\ \A w \in Workers : pc[w] \in {"crashed", "cancelled"}
    /\ \E o \in close_outcomes(session["geocoder"]) :
          IF o.suspended
          THEN /\ session' = [session EXCEPT !["geocoder"] = o.state]
               /\ shutpc' = [shutpc EXCEPT ![h] = "closing_geocoder"]
               /\ UNCHANGED <<mainpc, exitStatus, db>>
          ELSE /\ session' = [session EXCEPT !["geocoder"] =
                                  IF mainpc = "closing_geocoder"
                                  THEN close_interrupted(o.state)
                                  ELSE o.state]
               /\ ShutdownExits(h)
    /\ UNCHANGED <<workVars, cancelRequested, prodpc, feedCancelled,
                   timedOut>>

\* shutdown from the return of geocoder.close(): sys.exit(0)
ShutdownClosed(h) ==
    /\ shutpc[h] = "closing_geocoder"
    /\ session' = [session EXCEPT !["geocoder"] = "closed"]
    /\ ShutdownExits(h)
    /\ UNCHANGED <<workVars, cancelRequested, prodpc, feedCancelled,
                   timedOut>>

NextShutdown ==
    \/ ProducerFetchedUpTo(MaxSignalledArticles)
    \/ ProducerWake
    \/ ProducerCancelled
    \/ ProducerFinallySlept
    \/ ProducerClosed
    \/ MainFeedDone
    \/ MainClosed
    \/ \E h \in Shutdowns : Signal(h)
    \/ \E h \in Shutdowns : ShutdownStart(h)
    \/ \E h \in Shutdowns : ShutdownTimeout(h)
    \/ \E h \in Shutdowns : ShutdownFeedDone(h)
    \/ \E h \in Shutdowns : ShutdownGathered(h)
    \/ \E h \in Shutdowns : ShutdownClosed(h)
    \/ \E w \in Workers : WorkerWake(w)
    \/ \E w \in Workers : ClassifyDone(w)
    \/ \E w \in Workers : ExtractDone(w)
    \/ \E w \in Workers : GeocodeDone(w)
    \/ \E w \in Workers : SleepDone(w)
    \/ \E w \in Workers : WorkerCancelled(w)

\* continuous mode with signals
SpecShutdown == InitMain /\ [][NextShutdown]_vars

(***************************************************************************)
(* Single calls of the stage functions, on enumerated backend answers.     *)
(***************************************************************************)
\* decorations a backend answer may carry around its text
PadChars == {" ", "\"", "."}
Pads == UNION {[1..k -> PadChars] : k \in 0..MaxPad}

ResponseCores ==
    {<<>>, T_crime, T_Crime, T_HAZARD, T_social, T_infrastructure, T_crimes,
     T_DISCARD, T_Discard, T_crime_inner_quote, T_crime_inner_dot,
     T_crime_single_quoted, T_crime_newline, T_quoted_padded_social,
     T_NO_LOCATION, T_no_location, T_No_Location, T_Monterrey,
     T_Monterrey_Mexico, T_cdmx_lower, T_MEXICO_upper,
     T_Ciudad_de_Mexico_acute, T_MEXICO_acute_upper, T_Mexic}

ResponseTexts ==
    {pre \o core \o post : pre \in Pads, core \in ResponseCores, post \in Pads}

Responses == {TextResponse(t) : t \in ResponseTexts} \cup ErrorResponses

\* an article as classify_article left it
ClassifiedArticle == [NewArticle(1) EXCEPT !.type = T_crime]
\* articles as extract_location left them
LocatedArticles ==
    {[ClassifiedArticle EXCEPT !.location = l] :
        l \in {T_Monterrey_Mexico, T_Mexico}}

StageCall(fn, article, resp) ==
    [fn |-> fn, phase |-> "called", resp |-> resp, article |-> article,
     ok |-> FALSE, requests |-> 0, attempt |-> 0, log |-> <<>>]

InitStages ==
    /\ queue = <<>>
    /\ unfinished = 0
    /\ finished = TRUE
    /\ art = <<>>
    /\ pc = [w \in Workers |-> "none"]
    /\ cur = [w \in Workers |-> 0]
    /\ attempt = [w \in Workers |-> 0]
    /\ cancelRequested = [w \in Workers |-> FALSE]
    /\ store = {}
    /\ mainpc = "none"
    /\ prodpc = "none"
    /\ stages = <<>>
    /\ outcome = <<>>
    /\ InitLife("none")
    /\ call \in
          {StageCall("classify_article", NewArticle(1), r) : r \in Responses}
          \cup {StageCall("extract_location", ClassifiedArticle, r) :
                   r \in Responses}
          \cup {StageCall("geocode_location", a, NoContentResponse) :
                   a \in LocatedArticles}

\* classify_article(article) runs to its return
CallClassify ==
    /\ call.fn = "classify_article"
    /\ call.phase = "called"
    /\ LET res == classify_article(call.article, call.resp) IN
       call' = [call EXCEPT !.phase = "returned", !.ok = res.ok,
                            !.article = res.article,
                            !.requests = res.requests]
    /\ UNCHANGED pipelineVars

\* extract_location(article) runs to its return
CallExtract ==
    /\ call.fn = "extract_location"
    /\ call.phase = "called"
    /\ LET res == extract_location(call.article, call.resp) IN
       call' = [call EXCEPT !.phase = "returned", !.ok = res.ok,
                            !.article = res.article,
                            !.requests = res.requests]
    /\ UNCHANGED pipelineVars

\* what the log records for the outcome of a GET
OutcomeTag(o) ==
    IF o.kind = "exception" THEN "exception"
    ELSE IF o.status # 200 THEN "status"
    ELSE IF o.features = <<>> THEN "empty"
    ELSE "found"

\* geocode_location(article) runs to its first GET
CallGeocode ==
    /\ call.fn = "geocode_location"
    /\ call.phase = "called"
    /\ call' = IF geocode_has_attempt(0)
               THEN [call EXCEPT !.phase = "request", !.attempt = 0,
                                 !.requests = 1, !.log = <<"request">>]
               ELSE [call EXCEPT !.phase = "returned", !.ok = FALSE]
    /\ UNCHANGED pipelineVars

\* the GET of the current attempt completes
CallGeocodeResponse ==
    /\ call.fn = "geocode_location"
    /\ call.phase = "request"
    /\ \E o \in GeoOutcomes :
          LET res == geocode_response(call.article, call.attempt, o) IN
          call' = IF res.next = "sleep"
                  THEN [call EXCEPT !.phase = "sleep", !.resp = o,
                                    !.log = @ \o <<OutcomeTag(o), "sleep">>]
                  ELSE [call EXCEPT !.phase = "returned", !.ok = res.ok,
                                    !.resp = o, !.article = res.article,
                                    !.log = Append(@, OutcomeTag(o))]
    /\ UNCHANGED pipelineVars

\* asyncio.sleep(RETRY_DELAY) completes
CallGeocodeSleepDone ==
    /\ call.fn = "geocode_location"
    /\ call.phase = "sleep"
    /\ call' = IF geocode_has_attempt(call.attempt + 1)
               THEN [call EXCEPT !.phase = "request", !.attempt = @ + 1,
                                 !.requests = @ + 1,
                                 !.log = Append(@, "request")]
               ELSE [call EXCEPT !.phase = "returned", !.ok = FALSE]
    /\ UNCHANGED pipelineVars

NextStages ==
    \/ CallClassify
    \/ CallExtract
    \/ CallGeocode
    \/ CallGeocodeResponse
    \/ CallGeocodeSleepDone

\* single calls of classify_article, extract_location and geocode_location
SpecStages == InitStages /\ [][NextStages]_vars

(***************************************************************************)
(* Single calls of FeedFetcher.fetch_feed, on enumerated answers of the    *)
(* feed's endpoint.                                                        *)
(***************************************************************************)
T_http == <<"h", "t", "t", "p">>

\* str.startswith
startswith(s, prefix) ==
    Len(s) >= Len(prefix) /\ SubSeq(s, 1, Len(prefix)) = prefix

\* entries RSS_FEEDS may hold: an https url, an http url, the empty string a
\* trailing comma leaves, a url of another scheme
FeedUrls ==
    {T_http \o <<"s", ":", "/", "/", "m">>, T_http \o <<":", "/", "/", "n">>,
     <<>>, <<"f", "t", "p", ":", "/", "/", "m">>}

\* what a GET of the feed may give: asyncio.TimeoutError, aiohttp.ClientError,
\* another exception, a status, and for a 200 whether the body can be read
\* and parsed (response.read() or feedparser.parse may raise)
FetchException(kind) == [kind |-> kind, status |-> 0, readable |-> FALSE]
FetchStatus(st, readable) ==
    [kind |-> "response", status |-> st, readable |-> readable]

FetchOutcomes ==
    {FetchException(k) : k \in {"timeout", "client_error", "exception"}}
        \cup {FetchStatus(st, FALSE) : st \in {403, 404, 500}}
        \cup {FetchStatus(200, r) : r \in BOOLEAN}

\* a variant of the retry loop that gives up on a 403
fetch_feed_response_403_final(k, o) ==
    IF o.kind = "response" /\ o.status = 200 /\ o.readable
    THEN [next |-> "return", ok |-> TRUE]
    ELSE IF k < MAX_RETRIES /\ ~(o.kind = "response" /\ o.status = 403)
         THEN [next |-> "sleep", ok |-> FALSE]
         ELSE [next |-> "return", ok |-> FALSE]

\* FeedFetcher.fetch_feed, from the outcome o of the GET of attempt k to the
\* next suspension point: return the parsed feed (ok) or None, or sleep
\* before the next attempt
fetch_feed_response(k, o) ==
    IF o.kind = "response" /\ o.status = 200 /\ o.readable
    THEN [next |-> "return", ok |-> TRUE]
    ELSE IF k < MAX_RETRIES
         THEN [next |-> "sleep", ok |-> FALSE]
         ELSE [next |-> "return", ok |-> FALSE]

\* for attempt in range(1, MAX_RETRIES + 1): is there an attempt numbered n
fetch_feed_has_attempt(n) == n >= 1 /\ n <= MAX_RETRIES

\* what the log records for the outcome of a GET of the feed
FetchTag(o) ==
    IF o.kind # "response" THEN o.kind
    ELSE IF o.status = 403 THEN "status403"
    ELSE IF o.status # 200 THEN "status"
    ELSE IF o.readable THEN "parsed"
    ELSE "unreadable"

FeedUrlOf(c) == c.resp.text

\* fetch_feed(feed_url) is called on an open session
InitFetchFeed ==
    /\ queue = <<>>
    /\ unfinished = 0
    /\ finished = TRUE
    /\ art = <<>>
    /\ pc = [w \in Workers |-> "none"]
    /\ cur = [w \in Workers |-> 0]
    /\ attempt = [w \in Workers |-> 0]
    /\ cancelRequested = [w \in Workers |-> FALSE]
    /\ store = {}
    /\ mainpc = "none"
    /\ prodpc = "none"
    /\ stages = <<>>
    /\ outcome = <<>>
    /\ InitLife("open")
    /\ call \in {[NoCall EXCEPT !.fn = "fetch_feed", !.phase = "called",
                                !.resp = TextResponse(u)] : u \in FeedUrls}

\* fetch_feed runs to its first GET, or returns None for a url that does not
\* start with 'http'
CallFetchFeed ==
    /\ call.fn = "fetch_feed"
    /\ call.phase = "called"
    /\ call' = IF startswith(FeedUrlOf(call), T_http)
                  /\ fetch_feed_has_attempt(1)
               THEN [call EXCEPT !.phase = "request", !.attempt = 1,
                                 !.requests = 1, !.log = <<"request">>]
               ELSE [call EXCEPT !.phase = "returned", !.ok = FALSE]
    /\ UNCHANGED pipelineVars

\* the GET of the current attempt completes
CallFetchFeedResponse ==
    /\ call.fn = "fetch_feed"
    /\ call.phase = "request"
    /\ \E o \in FetchOutcomes :
          LET res == fetch_feed_response(call.attempt, o) IN
          call' = IF res.next = "sleep"
                  THEN [call EXCEPT !.phase = "sleep",
                                    !.log = @ \o <<FetchTag(o), "sleep">>]
                  ELSE [call EXCEPT !.phase = "returned", !.ok = res.ok,
                                    !.log = Append(@, FetchTag(o))]
    /\ UNCHANGED pipelineVars

\* asyncio.sleep(RETRY_DELAY) completes
CallFetchFeedSleepDone ==
    /\ call.fn = "fetch_feed"
    /\ call.phase = "sleep"
    /\ call' = IF fetch_feed_has_attempt(call.attempt + 1)
               THEN [call EXCEPT !.phase = "request", !.attempt = @ + 1,
                                 !.requests = @ + 1,
                                 !.log = Append(@, "request")]
               ELSE [call EXCEPT !.phase = "returned", !.ok = FALSE]
    /\ UNCHANGED pipelineVars

NextFetchFeed ==
    \/ CallFetchFeed
    \/ CallFetchFeedResponse
    \/ CallFetchFeedSleepDone

\* single calls of fetch_feed
SpecFetchFeed == InitFetchFeed /\ [][NextFetchFeed]_vars

(***************************************************************************)
(* The feed fetcher: feedparser entries, FeedFetcher._parse_entry and      *)
(* FeedFetcher.fetch_all_feeds.                                            *)
(***************************************************************************)
\* the value of an entry attribute: absent (getattr gives None), a string,
\* or a list (feedparser's content)
Absent == [kind |-> "none", text |-> <<>>, items |-> <<>>]
Str(t) == [kind |-> "str", text |-> t, items |-> <<>>]
List(items) == [kind |-> "list", text |-> <<>>, items |-> items]
\* the items of a content list: a dict with a 'value', or something else
DictItem(v) == [kind |-> "dict", value |-> v]
OtherItem == [kind |-> "other", value |-> <<>>]

\* Python truth of an attribute value: None, '' and [] are false
truthy(v) ==
    \/ v.kind = "str" /\ v.text # <<>>
    \/ v.kind = "list" /\ v.items # <<>>

\* ''.join(item.get('value', '') for item in description
\*         if isinstance(item, dict))
RECURSIVE join_values(_)
join_values(items) ==
    IF items = <<>> THEN <<>>
    ELSE (IF Head(items).kind = "dict" THEN Head(items).value ELSE <<>>)
             \o join_values(Tail(items))

\* a feed entry: link is the number of its url, 0 when the entry has no link
\* (None or ''); bad_date: published_parsed is a value datetime() rejects
Entry(link, title, description, summary, content, bad_date) ==
    [link |-> link, title |-> title, description |-> description,
     summary |-> summary, content |-> content, bad_date |-> bad_date]

\* a variant of _parse_entry without the "if not title or not description"
\* test
parse_entry_unchecked(entry) ==
    IF entry.link = 0 \/ entry.bad_date
    THEN [ok |-> FALSE, article |-> NewArticle(0)]
    ELSE LET found ==
                 IF truthy(entry.description) THEN entry.description
                 ELSE IF truthy(entry.summary) THEN entry.summary
                 ELSE IF truthy(entry.content) THEN entry.content
                 ELSE Absent
             description ==
                 IF found.kind = "list" THEN Str(join_values(found.items))
                 ELSE found
         IN  [ok |-> TRUE,
              article |-> ParsedArticle(entry.link, entry.title.text,
                                        description.text)]

\* FeedFetcher._parse_entry: None (ok FALSE) or the article dict
parse_entry(entry) ==
    IF entry.link = 0
    THEN [ok |-> FALSE, article |-> NewArticle(0)]
    ELSE IF entry.bad_date
    THEN \* datetime(*struct_time[:6]) raises: except Exception, return None
         [ok |-> FALSE, article |-> NewArticle(0)]
    ELSE LET found ==
                 IF truthy(entry.description) THEN entry.description
                 ELSE IF truthy(entry.summary) THEN entry.summary
                 ELSE IF truthy(entry.content) THEN entry.content
                 ELSE Absent
             description ==
                 IF found.kind = "list" THEN Str(join_values(found.items))
                 ELSE found
         IN  IF ~truthy(entry.title) \/ ~truthy(description)
             THEN [ok |-> FALSE, article |-> NewArticle(0)]
             ELSE [ok |-> TRUE,
                   article |-> ParsedArticle(entry.link, entry.title.text,
                                             description.text)]

\* config.RSS_FEEDS, read from the environment: two feeds
RSS_FEEDS == <<"mural", "elnorte">>
Feeds == 1..Len(RSS_FEEDS)

\* what fetch_feed gave for one feed, as gather(return_exceptions=True)
\* returns it: an exception, None, or a parsed feed with its entries
FeedException == [kind |-> "exception", entries |-> <<>>]
FeedNone == [kind |-> "none", entries |-> <<>>]
FeedParsed(entries) == [kind |-> "parsed", entries |-> entries]

\* the entries of the parsed feeds from feed i on, in the order of the loops
RECURSIVE entries_from(_, _)
entries_from(results, i) ==
    IF i > Len(RSS_FEEDS) THEN <<>>
    ELSE (IF results[i].kind = "parsed" THEN results[i].entries ELSE <<>>)
             \o entries_from(results, i + 1)

\* the loop body without "self.processed_urls.add(article['url'])"
RECURSIVE new_articles_unmarked(_, _, _, _)
new_articles_unmarked(entries, seen, acc, log) ==
    IF entries = <<>>
    THEN [new_articles |-> acc, processed_urls |-> seen, log |-> log]
    ELSE LET res == parse_entry(Head(entries)) IN
         IF res.ok /\ res.article.url \notin seen
         THEN new_articles_unmarked(Tail(entries), seen,
                                    Append(acc, res.article),
                                    Append(log, "new"))
         ELSE new_articles_unmarked(Tail(entries), seen, acc,
                                    Append(log, IF res.ok THEN "seen"
                                                ELSE "dropped"))

\* fetch_all_feeds, "for entry in result.entries": an article that parses and
\* whose url is not in processed_urls is appended and its url added. The log
\* tells for each entry whether it gave a new article, had a url seen before,
\* or was dropped by _parse_entry.
RECURSIVE new_articles_from(_, _, _, _)
new_articles_from(entries, seen, acc, log) ==
    IF entries = <<>>
    THEN [new_articles |-> acc, processed_urls |-> seen, log |-> log]
    ELSE LET res == parse_entry(Head(entries)) IN
         IF res.ok /\ res.article.url \notin seen
         THEN new_articles_from(Tail(entries), seen \cup {res.article.url},
                                Append(acc, res.article), Append(log, "new"))
         ELSE new_articles_from(Tail(entries), seen, acc,
                                Append(log, IF res.ok THEN "seen"
                                            ELSE "dropped"))

\* a variant of fetch_all_feeds that does not add the urls it returns to
\* processed_urls
fetch_all_feeds_unmarked(results, seen) ==
    new_articles_unmarked(entries_from(results, 1), seen, <<>>, <<>>)

\* a variant of fetch_all_feeds whose gather lets the exception of one feed
\* end the whole cycle
fetch_all_feeds_failing_together(results, seen) ==
    IF \E i \in 1..Len(results) : results[i].kind = "exception"
    THEN [new_articles |-> <<>>, processed_urls |-> seen, log |-> <<>>]
    ELSE new_articles_from(entries_from(results, 1), seen, <<>>, <<>>)

\* FeedFetcher.fetch_all_feeds on the gathered results
fetch_all_feeds(results, seen) ==
    new_articles_from(entries_from(results, 1), seen, <<>>, <<>>)

\* Database.get_processed_urls: the stored urls, or the empty set when the
\* query raises
get_processed_urls(rows, fails) ==
    IF fails THEN {} ELSE {r.url : r \in rows}

\* entries the feeds may hold
ValidEntry(u) ==
    Entry(u, Str(T_title), Str(T_description), Absent, Absent, FALSE)

FeedEntries ==
    {ValidEntry(1),
     \* an empty description and a summary
     Entry(2, Str(T_title), Str(<<>>), Str(T_summary), Absent, FALSE),
     \* no link
     Entry(0, Str(T_title), Str(T_description), Absent, Absent, FALSE),
     \* an empty title
     Entry(1, Str(<<>>), Str(T_description), Absent, Absent, FALSE),
     \* no description, an empty summary, a content list that joins to ''
     Entry(2, Str(T_title), Absent, Str(<<>>),
           List(<<DictItem(<<>>), OtherItem>>), FALSE)}

\* the results of the feeds from feed i on, holding at most budget entries
RECURSIVE ResultsFrom(_, _)
ResultsFrom(i, budget) ==
    IF i > Len(RSS_FEEDS) THEN {<<>>}
    ELSE UNION {
             {<<r>> \o rest :
                 rest \in ResultsFrom(i + 1, budget - Len(r.entries))} :
             r \in {FeedException, FeedNone}
                      \cup {FeedParsed(e) :
                               e \in UNION {[1..n -> FeedEntries] :
                                               n \in 0..budget}}}

\* what one gather of the fetch_feed calls may give
CycleResults == ResultsFrom(1, MaxEntries)

\* the rows of a store that holds the urls of known
StoredRows(known) ==
    {[url |-> u, type |-> T_crime, coordinates |-> <<-99, 19>>] : u \in known}

\* a FeedFetcher was made on a store that holds some urls already; its
\* initialize() has not run yet
InitFeed ==
    /\ queue = <<>>
    /\ unfinished = 0
    /\ finished = TRUE
    /\ art = <<>>
    /\ pc = [w \in Workers |-> "none"]
    /\ cur = [w \in Workers |-> 0]
    /\ attempt = [w \in Workers |-> 0]
    /\ cancelRequested = [w \in Workers |-> FALSE]
    /\ store \in {StoredRows(known) : known \in SUBSET {1, 2}}
    /\ mainpc = "none"
    /\ prodpc = "initialize"
    /\ stages = <<>>
    /\ outcome = <<>>
    /\ call = NoCall
    /\ InitLife("none")

\* FeedFetcher.initialize: the session is opened, processed_urls is read from
\* the store; then fetch_all_feeds is awaited
FeedInitialize ==
    /\ prodpc = "initialize"
    /\ \E fails \in BOOLEAN :
          processed_urls' = get_processed_urls(store, fails)
    /\ session' = [session EXCEPT !["feed_fetcher"] = "open"]
    /\ prodpc' = "fetching"
    /\ UNCHANGED <<queue, unfinished, finished, art, pc, cur, attempt,
                   cancelRequested, store, mainpc, stages, outcome, call,
                   feedCancelled, shutpc, timedOut, cycles, exitStatus, db>>

\* fetch_all_feeds returns and each new article is put on the queue (in
\* lambda_main, and in poll_feeds_continuously, which then sleeps); call.log
\* keeps what became of each entry
FeedFetched ==
    /\ prodpc = "fetching"
    /\ cycles < MaxCycles
    /\ \E results \in CycleResults :
          LET res == fetch_all_feeds(results, processed_urls)
              n == Len(art)
              k == Len(res.new_articles)
          IN  /\ processed_urls' = res.processed_urls
              /\ art' = art \o res.new_articles
              /\ queue' = queue \o [i \in 1..k |-> n + i]
              /\ unfinished' = unfinished + k
              /\ finished' = (finished /\ k = 0)
              /\ stages' = stages \o [i \in 1..k |-> <<>>]
              /\ outcome' = outcome \o [i \in 1..k |-> "pending"]
              /\ call' = [NoCall EXCEPT !.fn = "fetch_all_feeds",
                                        !.phase = "returned",
                                        !.log = res.log]
    /\ cycles' = cycles + 1
    /\ prodpc' = "sleeping"
    /\ UNCHANGED <<pc, cur, attempt, cancelRequested, store, mainpc, session,
                   feedCancelled, shutpc, timedOut, exitStatus, db>>

NextFeed ==
    \/ FeedInitialize
    \/ FeedFetched
    \/ ProducerWake

\* the feed fetcher alone, over fetch cycles
SpecFeed == InitFeed /\ [][NextFeed]_vars

(***************************************************************************)
(* One fetch cycle, with the gathered results kept: fetch_all_feeds and    *)
(* the puts that follow it.                                                *)
(***************************************************************************)
\* an initialized FeedFetcher that knows the urls of the store; the gather of
\* its fetch_feed calls has given call.resp
InitCycle ==
    /\ queue = <<>>
    /\ unfinished = 0
    /\ finished = TRUE
    /\ art = <<>>
    /\ pc = [w \in Workers |-> "none"]
    /\ cur = [w \in Workers |-> 0]
    /\ attempt = [w \in Workers |-> 0]
    /\ cancelRequested = [w \in Workers |-> FALSE]
    /\ store \in {StoredRows(known) : known \in SUBSET {1, 2}}
    /\ mainpc = "none"
    /\ prodpc = "fetching"
    /\ stages = <<>>
    /\ outcome = <<>>
    /\ processed_urls = get_processed_urls(store, FALSE)
    /\ session = [c \in Sessions |-> "open"]
    /\ feedCancelled = FALSE
    /\ shutpc = [h \in Shutdowns |-> "none"]
    /\ timedOut = FALSE
    /\ cycles = 0
    /\ exitStatus = "running"
    /\ db = NoDatabase
    /\ \E results \in CycleResults :
          call = [NoCall EXCEPT !.fn = "fetch_all_feeds", !.phase = "called",
                                !.resp = results]

\* fetch_all_feeds goes through the gathered results and returns, and each
\* new article is put on the queue
CycleFetched ==
    /\ prodpc = "fetching"
    /\ call.fn = "fetch_all_feeds"
    /\ call.phase = "called"
    /\ LET res == fetch_all_feeds(call.resp, processed_urls)
           k == Len(res.new_articles)
       IN  /\ processed_urls' = res.processed_urls
           /\ art' = res.new_articles
           /\ queue' = [i \in 1..k |-> i]
           /\ unfinished' = k
           /\ finished' = (k = 0)
           /\ stages' = [i \in 1..k |-> <<>>]
           /\ outcome' = [i \in 1..k |-> "pending"]
           /\ call' = [call EXCEPT !.phase = "returned", !.log = res.log]
    /\ cycles' = cycles + 1
    /\ prodpc' = "sleeping"
    /\ UNCHANGED <<pc, cur, attempt, cancelRequested, store, mainpc, session,
                   feedCancelled, shutpc, timedOut, exitStatus, db>>

NextCycle == CycleFetched

\* one fetch cycle on every combination of feed results
SpecCycle == InitCycle /\ [][NextCycle]_vars

(***************************************************************************)
(* Startup of main and of lambda_main: Database.initialize_db, then the    *)
(* feed fetcher's initialize and its fetch cycles.                         *)
(***************************************************************************)
\* the entry points
EntryPoints == {"main", "lambda_main"}

\* what initialize_db meets: success, a connect() that raises, an execute()
\* that raises
InitializeDbOutcomes == {"ok", "connect_error", "execute_error"}

\* an initialize_db that logs the error and returns
initialize_db_swallowing(o) == TRUE

\* Database.initialize_db: True when it returns, False when it raises. The
\* except clause logs, rolls back when a connection exists, and re-raises.
initialize_db(o) == o = "ok"

\* the entry point has made the Database object, on a store that is empty or
\* holds a url already, and is about to call db.initialize_db()
InitStartup ==
    /\ queue = <<>>
    /\ unfinished = 0
    /\ finished = TRUE
    /\ art = <<>>
    /\ pc = [w \in Workers |-> "none"]
    /\ cur = [w \in Workers |-> 0]
    /\ attempt = [w \in Workers |-> 0]
    /\ cancelRequested = [w \in Workers |-> FALSE]
    /\ store \in {StoredRows(known) : known \in SUBSET {1}}
    /\ mainpc \in EntryPoints
    /\ prodpc = "none"
    /\ stages = <<>>
    /\ outcome = <<>>
    /\ call = NoCall
    /\ InitLife("none")

\* main / lambda_main from db.initialize_db(). When it raises, the exception
\* leaves the entry point: main has no handler around the call, lambda_main
\* logs and re-raises. When it returns, the geocoder session is opened; main
\* creates the feed task and the worker tasks, lambda_main awaits
\* feed_fetcher.initialize() and creates its workers after the fetch.
InitializeDb ==
    /\ mainpc \in EntryPoints
    /\ \E o \in InitializeDbOutcomes :
          /\ call' = [NoCall EXCEPT !.fn = "initialize_db",
                                    !.phase = IF o = "ok" THEN "returned"
                                              ELSE "raised",
                                    !.log = <<mainpc, o>>]
          /\ IF initialize_db(o)
             THEN /\ mainpc' = IF mainpc = "main" THEN "await_feed"
                               ELSE "fetch"
                  /\ prodpc' = "initialize"
                  /\ pc' = [w \in Workers |->
                               IF mainpc = "main" THEN "start" ELSE "none"]
                  /\ session' = [session EXCEPT !["geocoder"] = "open",
                                                !["article_processor"] = "open"]
                  /\ UNCHANGED exitStatus
             ELSE /\ mainpc' = "raised"
                  /\ exitStatus' = "Exception"
                  /\ UNCHANGED <<prodpc, pc, session>>
    /\ UNCHANGED <<queue, unfinished, finished, art, cur, attempt,
                   cancelRequested, store, stages, outcome, processed_urls,
                   feedCancelled, shutpc, timedOut, cycles, db>>

NextStartup ==
    \/ InitializeDb
    \/ FeedInitialize
    \/ FeedFetched
    \/ ProducerWake

\* startup and the fetch cycles after it
SpecStartup == InitStartup /\ [][NextStartup]_vars

(***************************************************************************)
(* The store alone: a sequence of Database.insert_article calls. The call  *)
(* is synchronous, so the calls of the worker tasks never overlap: any     *)
(* interleaving of the workers is a sequence of calls.                     *)
(***************************************************************************)
\* geocoded articles the workers may pass to insert_article
InsertArticles ==
    {[NewArticle(u) EXCEPT !.type = t, !.location = T_Monterrey_Mexico,
                           !.coordinates = c] :
        u \in 1..2, t \in {T_crime, T_social}, c \in Centers}

InitStore ==
    /\ queue = <<>>
    /\ unfinished = 0
    /\ finished = TRUE
    /\ art = <<>>
    /\ pc = [w \in Workers |-> "none"]
    /\ cur = [w \in Workers |-> 0]
    /\ attempt = [w \in Workers |-> 0]
    /\ cancelRequested = [w \in Workers |-> FALSE]
    /\ store = {}
    /\ mainpc = "none"
    /\ prodpc = "none"
    /\ stages = <<>>
    /\ outcome = <<>>
    /\ InitLife("none")
    /\ call = StageCall("insert_article", NewArticle(0), NoContentResponse)

\* insert_article(article) runs to its return, or raises when connect() or
\* execute() fails (the transaction is rolled back); the log keeps the urls
\* of the calls so far
CallInsert ==
    /\ call.fn = "insert_article"
    /\ Len(call.log) < MaxInserts
    /\ \E a \in InsertArticles, fails \in BOOLEAN :
          /\ store' = IF fails THEN store ELSE insert_article(store, a)
          /\ call' = [call EXCEPT
                         !.phase = IF fails THEN "raised" ELSE "returned",
                         !.article = a,
                         !.ok = ~fails /\ insert_article_returns_id(store, a),
                         !.log = Append(@, a.url)]
    /\ UNCHANGED <<queue, unfinished, finished, art, pc, cur, attempt,
                   cancelRequested, mainpc, prodpc, stages, outcome, lifeVars>>

NextStore == CallInsert

\* calls of insert_article
SpecStore == InitStore /\ [][NextStore]_vars

(***************************************************************************)
(* The Database object over the store operations of a run, in the order    *)
(* the program makes them: initialize_db, then get_processed_urls (in      *)
(* FeedFetcher.initialize), then one insert_article per geocoded article.  *)
(* The operations are synchronous and never overlap. db.conn and db.cursor *)
(* are the object's fields (0 is None, n is the n-th connection made or a  *)
(* cursor of it), db.conns the connections psycopg2.connect returned, and  *)
(* db.calls the history of the methods called on them.                     *)
(***************************************************************************)
\* how a store operation goes: it runs through, psycopg2.connect raises,
\* conn.cursor() raises, or a statement (execute, fetch, commit) raises
OperationOutcomes == {"ok", "connect_error", "cursor_error", "execute_error"}

\* operation op calls method m on connection c (or on a cursor of it);
\* acted tells whether the connection was open. On a closed connection
\* close() does nothing and every other method raises InterfaceError.
MethodCall(d, op, c, m) ==
    [d EXCEPT !.calls = Append(@, [op |-> op, conn |-> c, method |-> m,
                                   acted |-> d.conns[c].open])]

\* Database.connect as called by operation op: the fields are assigned one
\* after the other, so a failure leaves the later ones as they were
connect(d, op, o) ==
    IF o = "connect_error"
    THEN [db |-> d, raised |-> TRUE]
    ELSE LET n == Len(d.conns) + 1
             d1 == [d EXCEPT !.conns = Append(@, [by |-> op, open |-> TRUE]),
                             !.conn = n]
         IN  IF o = "cursor_error"
             THEN [db |-> d1, raised |-> TRUE]
             ELSE [db |-> [d1 EXCEPT !.cursor = n], raised |-> FALSE]

\* a variant of disconnect that closes the connection only when the object
\* holds a cursor of it
disconnect_with_cursor_only(d, op) ==
    IF d.cursor # 0 /\ d.cursor = d.conn
    THEN LET d1 == MethodCall(d, op, d.cursor, "cursor.close")
             d2 == MethodCall(d1, op, d.conn, "close")
         IN  [d2 EXCEPT !.conns[d.conn].open = FALSE]
    ELSE d

\* Database.disconnect: the fields keep their objects
disconnect(d, op) ==
    LET d1 == IF d.cursor # 0
              THEN MethodCall(d, op, d.cursor, "cursor.close")
              ELSE d
    IN  IF d.conn # 0
        THEN [MethodCall(d1, op, d.conn, "close")
                 EXCEPT !.conns[d.conn].open = FALSE]
        ELSE d1

\* "if self.conn: self.conn.rollback()" in an except clause; raised tells
\* that rollback raised InterfaceError
rollback(d, op) ==
    IF d.conn # 0
    THEN [db |-> MethodCall(d, op, d.conn, "rollback"),
          raised |-> ~d.conns[d.conn].open]
    ELSE [db |-> d, raised |-> FALSE]

\* the body shared by initialize_db, insert_article and get_processed_urls:
\* connect and the statements in the try block, the except clause (with the
\* rollback when rolls_back), the finally clause. error is the exception the
\* except clause ends with: "none", the "original" one, or "InterfaceError".
store_operation(d, op, o, rolls_back) ==
    LET c == connect(d, op, o)
        tried == IF c.raised THEN c.db
                 ELSE MethodCall(c.db, op, c.db.cursor, "execute")
        failed == c.raised \/ o = "execute_error"
        r == IF failed /\ rolls_back THEN rollback(tried, op)
             ELSE [db |-> tried, raised |-> FALSE]
    IN  [db |-> disconnect(r.db, op),
         error |-> IF ~failed THEN "none"
                   ELSE IF r.raised THEN "InterfaceError"
                   ELSE "original"]

\* the operations made so far
Operations == 1..Len(call.log)

InitDatabase ==
    /\ queue = <<>>
    /\ unfinished = 0
    /\ finished = TRUE
    /\ art = <<>>
    /\ pc = [w \in Workers |-> "none"]
    /\ cur = [w \in Workers |-> 0]
    /\ attempt = [w \in Workers |-> 0]
    /\ cancelRequested = [w \in Workers |-> FALSE]
    /\ store \in {StoredRows(known) : known \in SUBSET {1}}
    /\ mainpc = "none"
    /\ prodpc = "none"
    /\ stages = <<>>
    /\ outcome = <<>>
    /\ InitLife("none")
    /\ call = NoCall

\* operation 1: db.initialize_db() at startup. Its exception is re-raised and
\* ends the run.
CallInitializeDb ==
    /\ call.log = <<>>
    /\ \E o \in OperationOutcomes :
          LET res == store_operation(db, 1, o, TRUE) IN
          /\ db' = res.db
          /\ call' = [call EXCEPT
                         !.fn = "initialize_db",
                         !.phase = IF res.error = "none" THEN "returned"
                                   ELSE "raised",
                         !.log = <<[fn |-> "initialize_db", outcome |-> o,
                                    error |-> res.error]>>]
    /\ UNCHANGED <<queue, unfinished, finished, art, pc, cur, attempt,
                   cancelRequested, store, mainpc, prodpc, stages, outcome,
                   processed_urls, session, feedCancelled, shutpc, timedOut,
                   cycles, exitStatus>>

\* operation 2: db.get_processed_urls() in FeedFetcher.initialize. It has no
\* rollback, and its except clause returns an empty set.
CallGetProcessedUrls ==
    /\ Len(call.log) = 1
    /\ call.phase = "returned"
    /\ \E o \in OperationOutcomes :
          LET res == store_operation(db, 2, o, FALSE) IN
          /\ db' = res.db
          /\ processed_urls' = get_processed_urls(store, res.error # "none")
          /\ call' = [call EXCEPT
                         !.fn = "get_processed_urls",
                         !.phase = "returned",
                         !.log = Append(@, [fn |-> "get_processed_urls",
                                            outcome |-> o,
                                            error |-> res.error])]
    /\ UNCHANGED <<queue, unfinished, finished, art, pc, cur, attempt,
                   cancelRequested, store, mainpc, prodpc, stages, outcome,
                   session, feedCancelled, shutpc, timedOut, cycles,
                   exitStatus>>

\* operations 3 and up: db.insert_article(article) in process_articles, which
\* catches its exception
CallInsertArticle ==
    /\ Len(call.log) >= 2
    /\ Len(call.log) < MaxOperations
    /\ \E o \in OperationOutcomes, a \in InsertArticles :
          LET res == store_operation(db, Len(call.log) + 1, o, TRUE) IN
          /\ db' = res.db
          /\ store' = IF res.error = "none" THEN insert_article(store, a)
                      ELSE store
          /\ call' = [call EXCEPT
                         !.fn = "insert_article",
                         !.phase = IF res.error = "none" THEN "returned"
                                   ELSE "raised",
                         !.article = a,
                         !.ok = res.error = "none"
                                    /\ insert_article_returns_id(store, a),
                         !.log = Append(@, [fn |-> "insert_article",
                                            outcome |-> o,
                                            error |-> res.error])]
    /\ UNCHANGED <<queue, unfinished, finished, art, pc, cur, attempt,
                   cancelRequested, mainpc, prodpc, stages, outcome,
                   processed_urls, session, feedCancelled, shutpc, timedOut,
                   cycles, exitStatus>>

NextDatabase ==
    \/ CallInitializeDb
    \/ CallGetProcessedUrls
    \/ CallInsertArticle

\* the store operations of a run
SpecDatabase == InitDatabase /\ [][NextDatabase]_vars

(***************************************************************************)
(* Properties.                                                             *)
(***************************************************************************)
Articles == 1..Len(art)

Range(s) == {s[i] : i \in 1..Len(s)}

IsPrefix(s, t) == Len(s) <= Len(t) /\ SubSeq(t, 1, Len(s)) = s

\* processing of the article ended by persisting or discarding it
Processed(a) ==
    outcome[a] \in {"persisted", "duplicate", "insert_error",
                    "discarded_classify", "discarded_extract",
                    "discarded_geocode"}

\* C1: in one-shot mode, once article_queue.join() has returned (and the
\* workers are being cancelled), no article is left in the queue and every
\* enqueued article has been persisted or discarded.
C1_JoinReturnsAfterAllProcessed ==
    mainpc \in {"gather", "done"} =>
        /\ queue = <<>>
        /\ \A a \in Articles : Processed(a)

\* C2: a worker task never ends because of an article: a worker task that
\* has ended was cancelled from outside.
C2_WorkerEndsOnlyByCancellation ==
    \A w \in Workers : pc[w] \in {"crashed", "cancelled"} => cancelRequested[w]

\* C3: in continuous mode, with no shutdown, the pipeline never reaches a
\* state where articles sit in the queue and no worker is left to take them.
C3_QueuedArticleHasAWorker ==
    queue # <<>> => \E w \in Workers : pc[w] \notin {"crashed", "cancelled"}

Enriched(a) ==
    /\ a.url \in Articles
    /\ a.type \in VALID_CATEGORIES
    /\ a.location # None
    /\ a.location # <<>>
    /\ Len(a.coordinates) = 2

\* C4, as stated: every article passed to insert_article has a category among
\* crime, infrastructure, hazard, social, a non-empty location and
\* coordinates; no row of the store lacks any of these.
C4_AsStated ==
    /\ \A a \in Articles : "insert" \in Range(stages[a]) => Enriched(art[a])
    /\ \A r \in store :
          /\ r.type \in VALID_CATEGORIES
          /\ Len(r.coordinates) = 2
          /\ "location" \in DOMAIN r
          /\ r.location # <<>>

\* C4, amended: every article passed to insert_article has a category among
\* crime, infrastructure, hazard, social, a non-empty location and
\* coordinates; every row of the store has such a category and coordinates
\* (the INSERT statement writes no location).
C4_OnlyEnrichedArticlesPersisted ==
    /\ \A a \in Articles : "insert" \in Range(stages[a]) => Enriched(art[a])
    /\ \A r \in store : r.type \in VALID_CATEGORIES /\ Len(r.coordinates) = 2

\* an article reached the store through the classify fallback and another
\* was passed to insert_article when the insert raised
C4_Witness ==
    /\ \E r \in store : r.type = T_social
    /\ \E a \in Articles : outcome[a] = "insert_error"

\* C5: the stages invoked for an article are, in this order and each at most
\* once, classify, extract, geocode, insert; once a stage has discarded the
\* article, that stage is the last one invoked for it.
C5_StagesInOrderAndStopAtDiscard ==
    \A a \in Articles :
        /\ IsPrefix(stages[a], StageOrder)
        /\ outcome[a] = "discarded_classify" => stages[a] = SubSeq(StageOrder, 1, 1)
        /\ outcome[a] = "discarded_extract" => stages[a] = SubSeq(StageOrder, 1, 2)
        /\ outcome[a] = "discarded_geocode" => stages[a] = SubSeq(StageOrder, 1, 3)

\* one article was discarded by classify, the other went through all stages
C5_Witness ==
    /\ \E a \in Articles : outcome[a] = "discarded_classify"
    /\ \E a \in Articles : outcome[a] = "persisted" /\ stages[a] = StageOrder

\* C6: when the inference call of extract_location fails at the transport
\* level, extract_location returns the article with location "Mexico".
C6_TransportFailureGivesCountryDefault ==
    (/\ call.fn = "extract_location"
     /\ call.phase = "returned"
     /\ call.resp.kind = "transport_error")
        => call.ok /\ call.article.location = T_Mexico

\* C7: classify_article sends exactly one inference request per call, and when
\* the request fails with a transport or response-parse error it returns the
\* article with the default category social.
C7_ClassifyOneRequestDefaultOnError ==
    (call.fn = "classify_article" /\ call.phase = "returned") =>
        /\ call.requests = 1
        /\ call.resp.kind \in {"transport_error", "parse_error"} =>
              call.ok /\ call.article.type = T_social

C7_Witness ==
    /\ call.fn = "classify_article"
    /\ call.phase = "returned"
    /\ call.resp.kind = "transport_error"
    /\ call.ok

Quotes == {"\"", "'"}

\* s without the characters of chars that stand at its two ends
EndsRemoved(s, chars) ==
    LET keep == {i \in 1..Len(s) : s[i] \notin chars} IN
    IF keep = {} THEN <<>>
    ELSE SubSeq(s, CHOOSE i \in keep : \A j \in keep : i <= j,
                   CHOOSE i \in keep : \A j \in keep : i >= j)

\* r trimmed of whitespace, lower-cased, its quotes removed, its leading and
\* trailing periods removed
Normalized(r) ==
    EndsRemoved(
        SelectSeq(lower(EndsRemoved(r, Whitespace)), LAMBDA c : c \notin Quotes),
        {"."})

\* C8: for every response text r, classify_article discards the article
\* exactly when r normalized is not a valid category, and otherwise sets the
\* category to r normalized.
C8_ClassifyDiscardsExactlyInvalid ==
    (/\ call.fn = "classify_article"
     /\ call.phase = "returned"
     /\ call.resp.kind = "text")
        => /\ call.ok <=> Normalized(call.resp.text) \in VALID_CATEGORIES
           /\ call.ok => call.article.type = Normalized(call.resp.text)
           /\ ~call.ok => call.article.type = None

\* the answer ' "Crime".' is accepted as crime
C8_Witness ==
    /\ call.fn = "classify_article"
    /\ call.phase = "returned"
    /\ call.resp = TextResponse(<<" ", "\"">> \o T_Crime \o <<"\"", ".">>)
    /\ call.ok

MentionsMexicoExactly(s) ==
    contains(s, T_Mexico) \/ contains(s, T_Mexico_cap_acute)

MentionsMexicoAnyCase(s) ==
    contains(lower(s), T_mexico) \/ contains(lower(s), T_mexico_acute)

\* C9, as stated: extract_location discards when r trimmed is empty or is the
\* sentinel in any letter case; otherwise the location contains "Mexico" or
\* "México", and is r with ", Mexico" appended exactly when r does not
\* contain one of them.
C9_AsStated ==
    (/\ call.fn = "extract_location"
     /\ call.phase = "returned"
     /\ call.resp.kind = "text")
        => LET r == EndsRemoved(call.resp.text, Whitespace) IN
           IF r = <<>> \/ lower(r) = T_no_location
           THEN ~call.ok
           ELSE /\ call.ok
                /\ MentionsMexicoExactly(call.article.location)
                /\ call.article.location =
                      IF MentionsMexicoExactly(r) THEN r
                      ELSE r \o T_comma_Mexico

\* C9, amended: extract_location discards when r trimmed is empty or is the
\* sentinel in any letter case; otherwise the location contains "mexico" or
\* "méxico" in some letter case, and is r with ", Mexico" appended exactly
\* when r does not contain one of them in any letter case.
C9_LocationMentionsMexicoInAnyCase ==
    (/\ call.fn = "extract_location"
     /\ call.phase = "returned"
     /\ call.resp.kind = "text")
        => LET r == EndsRemoved(call.resp.text, Whitespace) IN
           IF r = <<>> \/ lower(r) = T_no_location
           THEN ~call.ok
           ELSE /\ call.ok
                /\ MentionsMexicoAnyCase(call.article.location)
                /\ call.article.location =
                      IF MentionsMexicoAnyCase(r) THEN r
                      ELSE r \o T_comma_Mexico

\* the answer "cdmx, mexico" is returned as it is
C9_Witness ==
    /\ call.fn = "extract_location"
    /\ call.phase = "returned"
    /\ call.resp = TextResponse(<<" ">> \o T_cdmx_lower)
    /\ call.ok
    /\ call.article.location = T_cdmx_lower

Count(s, x) == Cardinality({i \in 1..Len(s) : s[i] = x})

\* C10: geocode_location never sends more than MAX_RETRIES requests; when
\* every attempt fails it returns None after exactly MAX_RETRIES requests,
\* having slept once between consecutive requests and not after the last.
C10_GeocodeRetriesExactlyMaxRetries ==
    call.fn = "geocode_location" =>
        /\ Count(call.log, "request") <= MAX_RETRIES
        /\ call.requests = Count(call.log, "request")
        /\ (/\ call.phase = "returned"
            /\ Range(call.log) \cap {"empty", "found"} = {})
              => /\ ~call.ok
                 /\ Count(call.log, "request") = MAX_RETRIES
                 /\ Count(call.log, "sleep") = MAX_RETRIES - 1
                 /\ \A i \in 1..Len(call.log) :
                       /\ (call.log[i] = "request" /\ i > 1)
                             => call.log[i - 1] = "sleep"
                       /\ call.log[i] = "sleep"
                             => i < Len(call.log) /\ call.log[i + 1] = "request"

\* three failed attempts (an exception, a 429 or 500, an exception)
C10_Witness ==
    /\ call.fn = "geocode_location"
    /\ call.phase = "returned"
    /\ ~call.ok
    /\ call.log = <<"request", "exception", "sleep", "request", "status",
                    "sleep", "request", "exception">>

Last(s) == s[Len(s)]

\* C11: a 200 response ends geocode_location at once, on whichever attempt it
\* arrives: a non-empty result returns the article with the first feature's
\* center as coordinates, an empty result returns None; no request and no
\* sleep follows it, and a sleep follows only an exception or a non-200
\* status.
C11_GeocodeStopsOnSuccessResponse ==
    call.fn = "geocode_location" =>
        /\ \A i \in 1..Len(call.log) :
              /\ call.log[i] \in {"empty", "found"}
                    => i = Len(call.log) /\ call.phase = "returned"
              /\ call.log[i] = "sleep"
                    => i > 1 /\ call.log[i - 1] \in {"exception", "status"}
        /\ (call.phase = "returned" /\ call.log # <<>>
                /\ Last(call.log) = "found")
              => /\ call.ok
                 /\ call.article.coordinates = call.resp.features[1].center
        /\ (call.phase = "returned" /\ call.log # <<>>
                /\ Last(call.log) = "empty")
              => ~call.ok

\* the second attempt gets a result with two features, after a non-200 status
C11_Witness ==
    /\ call.fn = "geocode_location"
    /\ call.phase = "returned"
    /\ call.log = <<"request", "status", "sleep", "request", "found">>
    /\ call.resp = GeoOk(<<[center |-> <<-99, 19>>],
                           [center |-> <<-100, 25>>]>>)
    /\ call.ok
    /\ call.article.coordinates = <<-99, 19>>

\* C12: the store never holds two rows with the same url. An insert of a url
\* that is not stored adds exactly one row and returns its id; an insert of a
\* stored url returns None, the conflict raising nothing, and leaves the rows
\* as they are; an insert that fails on the connection leaves them too.
C12_InsertIsIdempotentPerUrl ==
    [][/\ \A r1, r2 \in store' : r1.url = r2.url => r1 = r2
       /\ call'.fn = "insert_article" =>
             LET a == call'.article
                 known == \E r \in store : r.url = a.url
             IN  /\ (call'.phase = "returned" /\ known)
                       => ~call'.ok /\ store' = store
                 /\ (call'.phase = "returned" /\ ~known)
                       => /\ call'.ok
                          /\ Cardinality(store') = Cardinality(store) + 1
                          /\ store \subseteq store'
                          /\ \E r \in store' \ store :
                                /\ r.url = a.url
                                /\ r.type = a.type
                                /\ r.coordinates = a.coordinates
                 /\ call'.phase = "raised" => store' = store]_vars

\* the second insert of url 1, with another category, returned None and left
\* the one row
C12_Witness ==
    /\ call.fn = "insert_article"
    /\ call.phase = "returned"
    /\ call.log = <<1, 1>>
    /\ ~call.ok
    /\ call.article.type = T_social
    /\ store = {[url |-> 1, type |-> T_crime, coordinates |-> <<-99, 19>>]}
\* C13: no article in the queue carries a url that the store held when the
\* process started.
C13_StoredUrlNeverEnqueued ==
    \A a \in Articles : art[a].url \notin {r.url : r \in store}

\* C14: no url is enqueued twice, and the url of every article returned by
\* fetch_all_feeds is in processed_urls from then on.
C14_NoUrlEnqueuedTwice ==
    /\ \A a, b \in Articles : art[a].url = art[b].url => a = b
    /\ \A a \in Articles : art[a].url \in processed_urls

\* the store was empty; the second cycle met a url that an earlier cycle had
\* enqueued, and a new one: only the new one was enqueued
C14_Witness ==
    /\ store = {}
    /\ cycles = 2
    /\ call.fn = "fetch_all_feeds"
    /\ call.log = <<"seen", "new">>
    /\ Len(art) = 2

\* C15: every enqueued article has a non-empty title, a non-empty description
\* and a url.
C15_QueuedArticleHasTitleDescriptionUrl ==
    \A a \in Articles :
        /\ art[a].title \notin {None, <<>>}
        /\ art[a].description \notin {None, <<>>}
        /\ art[a].url # 0

\* the feeds held an entry that _parse_entry dropped and an entry whose
\* description comes from its summary: only the second was enqueued
C15_Witness ==
    /\ call.fn = "fetch_all_feeds"
    /\ call.log = <<"dropped", "new">>
    /\ cycles = 1
    /\ Len(art) = 1
    /\ art[1].url = 2
    /\ art[1].description = T_summary
\* C20: an article whose worker was cancelled before the persist stage was
\* never passed to insert_article and has no row; every row of the store
\* comes from an article that went through classify, extract-location and
\* geocode and was inserted.
C20_CancelledArticleNeverStored ==
    /\ \A a \in Articles :
          outcome[a] = "cancelled"
              => /\ "insert" \notin Range(stages[a])
                 /\ ~\E r \in store : r.url = art[a].url
    /\ \A r \in store :
          \E a \in Articles :
              /\ art[a].url = r.url
              /\ stages[a] = StageOrder
              /\ outcome[a] = "persisted"

\* a worker was cancelled while its article was being geocoded
C20_Witness ==
    \E a \in Articles :
        /\ outcome[a] = "cancelled"
        /\ stages[a] = <<"classify", "extract", "geocode">>
        /\ art[a] = NewArticle(art[a].url)
        /\ ~\E r \in store : r.url = art[a].url

\* every task of the process has ended
ProcessEnded ==
    /\ exitStatus # "running"
    /\ prodpc = "done"
    /\ \A w \in Workers : pc[w] \in {"crashed", "cancelled"}

\* shutdown task h has called feed_task.cancel()
ShutdownRan(h) == shutpc[h] \notin {"none", "created", "never_ran"}

\* C16: when two signals have each started a shutdown task, the process ends
\* as one shutdown is meant to end it: through sys.exit(0) with no error
\* raised, and with the feed session and the geocoder session closed by a
\* close() that ran to its end
C16_TwoShutdownsEndCleanly ==
    (/\ ProcessEnded
     /\ ShutdownRan(1)
     /\ ShutdownRan(2))
        => /\ exitStatus = "SystemExit"
           /\ session["feed_fetcher"] = "closed"
           /\ session["geocoder"] = "closed"


C18_InFlightStageCompletes ==
    [][/\ (\E h \in Shutdowns : ShutdownRan(h))
              => Len(queue') >= Len(queue)
       /\ \A a \in DOMAIN outcome' :
              outcome'[a] = "cancelled" => timedOut']_vars


\* C19: when the process has ended after a shutdown, the feed session, the
\* geocoder session and the classifier's client have each been closed
C19_ConnectionsClosedAtExit ==
    ProcessEnded => \A c \in Sessions : session[c] = "closed"


\* the places article a is in: positions of the queue and workers holding it
QueuePlaces(a) == {i \in 1..Len(queue) : queue[i] = a}
Holders(a) == {w \in Workers : cur[w] = a}

\* C21: no two workers hold the same article or two articles of one url, and
\* an article is in one place only: waiting in the queue and never taken, or
\* held by the one worker that took it, or ended; it is taken at most once
C21_ArticleOwnedByOneWorker ==
    /\ \A v, w \in Workers :
          (v # w /\ cur[v] # 0 /\ cur[w] # 0)
              => /\ cur[v] # cur[w]
                 /\ art[cur[v]].url # art[cur[w]].url
    /\ \A a \in Articles :
          /\ Cardinality(QueuePlaces(a)) + Cardinality(Holders(a)) <= 1
          /\ QueuePlaces(a) # {} => stages[a] = <<>>
          /\ Holders(a) # {} => outcome[a] = "pending"
          /\ Count(stages[a], "classify") <= 1

\* two workers are in the middle of two articles, one of them past its first
\* stage, and the queue is empty
C21_Witness ==
    /\ \E v, w \in Workers :
          /\ v # w
          /\ cur[v] # 0
          /\ cur[w] # 0
          /\ Len(stages[cur[v]]) > 1
    /\ queue = <<>>


\* the store failed at startup: initialize_db raised, or the read of the
\* known urls in FeedFetcher.initialize did (a stored url is then unknown)
StoreFailedAtStartup ==
    \/ call.fn = "initialize_db" /\ call.phase = "raised"
    \/ /\ prodpc \notin {"none", "initialize"}
       /\ \E r \in store : r.url \notin processed_urls

\* the run was aborted by an exception before anything else was done: no
\* feed fetched, no article enqueued, no feed task or worker started
AbortedAtStartup ==
    /\ exitStatus = "Exception"
    /\ cycles = 0
    /\ art = <<>>
    /\ prodpc = "none"
    /\ \A w \in Workers : pc[w] = "none"

FetchFailures ==
    {"timeout", "client_error", "exception", "status403", "status",
     "unreadable"}

\* C23: fetch_feed on an http url sends at most MAX_RETRIES requests. When
\* every request fails it returns None after exactly MAX_RETRIES requests,
\* with one sleep between consecutive requests and none after the last. A
\* failure of any kind, a 403 included, is followed by the sleep and the next
\* request unless it is the failure of the last attempt. A 200 whose body is
\* read and parsed ends the call at once with the parsed feed.
C23_FetchFeedRetriesExactlyMaxRetries ==
    (call.fn = "fetch_feed" /\ startswith(FeedUrlOf(call), T_http)) =>
        /\ Count(call.log, "request") <= MAX_RETRIES
        /\ call.requests = Count(call.log, "request")
        /\ (call.phase = "returned" /\ "parsed" \notin Range(call.log))
              => /\ ~call.ok
                 /\ Count(call.log, "request") = MAX_RETRIES
                 /\ Count(call.log, "sleep") = MAX_RETRIES - 1
                 /\ Last(call.log) \in FetchFailures
        /\ \A i \in 1..Len(call.log) :
              /\ (call.log[i] = "request" /\ i > 1)
                    => call.log[i - 1] = "sleep"
              /\ call.log[i] = "sleep"
                    => /\ i > 1 /\ call.log[i - 1] \in FetchFailures
                       /\ call.phase = "sleep" \/ i < Len(call.log)
                       /\ i < Len(call.log) => call.log[i + 1] = "request"
              /\ (call.log[i] \in FetchFailures /\ i < Len(call.log))
                    => call.log[i + 1] = "sleep"
              /\ (call.log[i] \in FetchFailures /\ i = Len(call.log))
                    => /\ call.phase = "returned"
                       /\ Count(call.log, "request") = MAX_RETRIES
              /\ call.log[i] = "parsed"
                    => /\ i = Len(call.log)
                       /\ call.phase = "returned"
                       /\ call.ok

\* a 403, a timeout and a client error, then None
C23_Witness ==
    /\ call.fn = "fetch_feed"
    /\ call.phase = "returned"
    /\ ~call.ok
    /\ call.log = <<"request", "status403", "sleep", "request", "timeout",
                    "sleep", "request", "client_error">>


\* the valid entries of feed f of results
ValidEntriesOf(results, f) ==
    {j \in 1..Len(results[f].entries) : parse_entry(results[f].entries[j]).ok}

\* C24: after a fetch cycle, a feed that raised or gave no document has
\* contributed nothing, and the articles returned and enqueued are, once
\* each, the valid entries of the feeds that gave a document whose urls were
\* not known before, whatever the other feeds did
C24_FailedFeedDoesNotAffectOthers ==
    (call.fn = "fetch_all_feeds" /\ call.phase = "returned") =>
        LET results == call.resp
            parsed == {f \in 1..Len(results) : results[f].kind = "parsed"}
            returned == {art[a].url : a \in 1..Len(art)}
            before == {r.url : r \in store}
            valid == UNION {{results[f].entries[j].link :
                                j \in ValidEntriesOf(results, f)} :
                            f \in parsed}
        IN  /\ returned = valid \ before
            /\ Cardinality(returned) = Len(art)
            /\ queue = [i \in 1..Len(art) |-> i]
            /\ processed_urls = before \cup valid
            /\ (parsed = {}) => art = <<>>

\* the first feed raised and the second gave a document with a valid entry of
\* an unknown url, which was enqueued
C24_Witness ==
    /\ call.fn = "fetch_all_feeds"
    /\ call.phase = "returned"
    /\ call.resp = <<FeedException, FeedParsed(<<ValidEntry(1)>>)>>
    /\ Len(art) = 1
    /\ art[1].url = 1
    /\ queue = <<1>>


\* no stage discarded article a and the store did not fail on its insert
NoStageFailed(a) ==
    outcome[a] \notin {"discarded_classify", "discarded_extract",
                       "discarded_geocode", "insert_error"}

\* C25: when a one-shot run has ended, every fetched article that no stage
\* discarded is in the store as exactly one row, which carries the category
\* and the coordinates the stages gave that article, whatever became of the
\* other articles of the batch
C25_SucceedingArticleIsStored ==
    mainpc = "done" =>
        \A a \in Articles :
            NoStageFailed(a) =>
                /\ Cardinality({r \in store : r.url = art[a].url}) = 1
                /\ \A r \in store :
                      r.url = art[a].url
                          => /\ r.type = art[a].type
                             /\ r.coordinates = art[a].coordinates


\* lambda_main has left its finally clause: the workers have ended and both
\* sessions are closed
LambdaEnded ==
    /\ mainpc = "done"
    /\ \A w \in Workers : pc[w] \in {"crashed", "cancelled"}
    /\ session["geocoder"] = "closed"
    /\ session["feed_fetcher"] = "closed"

\* an external call of worker w (the executor's invoke_model) is about to
\* return to it
ModelCallReturns(w) ==
    \/ pc[w] = "classify" /\ AllStarted /\ ~cancelRequested[w]
    \/ pc[w] = "extract" /\ ~cancelRequested[w]

\* the run has ended, or one of its tasks has a step to take
NotStuck ==
    \/ LambdaEnded
    \/ \E w \in Workers : ModelCallReturns(w)
    \/ ENABLED NextLambda

\* steps the article a worker holds at position p of attempt n has left
\* before its last stage returns
StageRank(p, n) ==
    CASE p = "classify" -> 2 * MAX_RETRIES + 2
      [] p = "extract" -> 2 * MAX_RETRIES + 1
      [] p = "geocode" -> 2 * (MAX_RETRIES - n)
      [] p = "sleep" -> 2 * (MAX_RETRIES - n) - 1
      [] OTHER -> 0

\* steps article a has left: one more than a held article while it waits in
\* the queue, none once it was processed or dropped
ArticleRank(a) ==
    IF QueuePlaces(a) # {} THEN 2 * MAX_RETRIES + 3
    ELSE IF Holders(a) # {}
    THEN LET w == CHOOSE v \in Holders(a) : TRUE IN StageRank(pc[w], attempt[w])
    ELSE 0

\* steps the task of worker w has left apart from its articles: its first
\* step and its end
WorkerRank(w) ==
    CASE pc[w] \in {"none", "start"} -> 2
      [] pc[w] \in {"crashed", "cancelled"} -> 0
      [] OTHER -> 1

\* steps lambda_main has left
MainRank ==
    CASE mainpc = "fetch" -> 3
      [] mainpc = "join" -> 2
      [] mainpc = "gather" -> 1
      [] OTHER -> 0

RECURSIVE SumTo(_, _)
SumTo(f, n) == IF n = 0 THEN 0 ELSE f[n] + SumTo(f, n - 1)

\* more than the workers and the articles of the largest batch have left
RankBase == 2 * num_workers + (2 * MAX_RETRIES + 3) * MaxBatch + 1

\* the work a one-shot run has left, a natural number
WorkLeft ==
    MainRank * RankBase
        + SumTo([w \in Workers |-> WorkerRank(w)], num_workers)
        + SumTo([a \in Articles |-> ArticleRank(a)], Len(art))

\* C26: a one-shot run in which every external call returns comes to its
\* end, for every batch: join returns, the workers are cancelled and awaited
\* and the sessions are closed. No state short of that end is stuck, and
\* every step lowers the work left, so the run cannot go on for ever either.
C26_OneShotRunTerminates ==
    /\ []NotStuck
    /\ [][WorkLeft' < WorkLeft /\ WorkLeft' >= 0]_vars

\* a run of two articles, one persisted and one discarded, has ended
C26_Witness ==
    /\ LambdaEnded
    /\ Len(art) = 2
    /\ \E a \in Articles : outcome[a] = "persisted"
    /\ \E a \in Articles : outcome[a] = "discarded_geocode"


\* the connections operation op opened
OpenedBy(op) == {n \in 1..Len(db.conns) : db.conns[n].by = op}

\* the calls made on a connection that another operation opened
ForeignCalls ==
    {k \in 1..Len(db.calls) : db.conns[db.calls[k].conn].by # db.calls[k].op}

\* between store operations no connection is open
NoConnectionOpen == \A n \in 1..Len(db.conns) : ~db.conns[n].open

\* C27 as stated: between store operations no connection is open, and no
\* operation calls a method of a connection that another operation opened
C27_AsStated ==
    /\ NoConnectionOpen
    /\ ForeignCalls = {}

\* C27: between store operations no connection is open; an operation opens
\* one connection of its own unless psycopg2.connect fails, and every call
\* that acts on an open connection is made by the operation that opened it.
\* The calls an operation makes on the connection of another are those of
\* an operation whose connect failed, on the closed connection the object
\* still refers to: they find it closed, and a rollback among them raises
\* InterfaceError in place of the connection error.
C27_OwnConnectionClosedOnEveryPath ==
    /\ NoConnectionOpen
    /\ \A op \in Operations :
          Cardinality(OpenedBy(op)) =
              IF call.log[op].outcome = "connect_error" THEN 0 ELSE 1
    /\ \A k \in 1..Len(db.calls) :
          db.calls[k].acted => k \notin ForeignCalls
    /\ \A k \in ForeignCalls :
          LET c == db.calls[k] IN
          /\ call.log[c.op].outcome \in {"connect_error", "cursor_error"}
          /\ ~c.acted
          /\ c.method \in {"cursor.close", "close", "rollback"}
          /\ c.method = "rollback" => call.log[c.op].error = "InterfaceError"

\* an insert_article whose connect failed after two operations that went
\* through: it called rollback on a connection it had not opened
C27_Witness ==
    /\ Len(call.log) = 3
    /\ call.log[1].outcome = "ok"
    /\ call.log[2].outcome = "ok"
    /\ call.log[3].outcome = "connect_error"
    /\ call.log[3].error = "InterfaceError"
    /\ \E k \in ForeignCalls :
          db.calls[k].op = 3 /\ db.calls[k].method = "rollback"
    /\ Len(db.conns) = 2


\* the enqueued articles whose processing has not ended
NotYetProcessed == {a \in Articles : outcome[a] = "pending"}

\* C28: in a one-shot run, once the batch is enqueued, the queue's count of
\* unfinished tasks equals the number of enqueued articles not yet fully
\* processed, and no worker's task_done finds no task unfinished (which
\* raises ValueError and ends the worker): task_done is called once for each
\* article dequeued
C28_TaskDoneOncePerArticle ==
    mainpc # "fetch" =>
        /\ unfinished = Cardinality(NotYetProcessed)
        /\ \A w \in Workers : pc[w] # "crashed"


\* the producer is in its loop: in fetch_all_feeds (or the puts after it), or
\* in the sleep that follows a cycle
InLoop(p) == p \in {"fetching", "sleeping"}

\* a step in which the producer leaves its loop was caused by
\* feed_task.cancel() or by the end of the process
LoopEndsOnlyByCancellation ==
    InLoop(prodpc) /\ ~InLoop(prodpc')
        => feedCancelled \/ exitStatus' # "running"

\* a cycle, failed or not, is followed by the sleep of the finally clause,
\* and a cycle begins only out of that sleep
SleepsBetweenCycles ==
    /\ prodpc = "fetching" /\ prodpc' # "fetching"
          => prodpc' \in {"sleeping", "finally_sleep"}
             \/ exitStatus' # "running"
    /\ prodpc # "fetching" /\ prodpc' = "fetching" => prodpc = "sleeping"

\* poll_feeds_continuously has ended and left the feed session closed
SessionClosedWhenLoopEnded ==
    prodpc' = "done" => session'["feed_fetcher"] = "closed"

\* C29: in continuous mode the producer leaves its loop only when it is
\* cancelled, it sleeps one polling interval after every cycle, failed or
\* not, before the next one starts, and when poll_feeds_continuously has
\* ended the feed session is closed
C29_ProducerLoopEndsByCancellationAndCloses ==
    [][/\ LoopEndsOnlyByCancellation
       /\ SleepsBetweenCycles
       /\ SessionClosedWhenLoopEnded]_vars

====
